---- MODULE Spec2Model ----
(***************************************************************************)
(* A model of the UHCC portal support chatbot: the page scraper with its   *)
(* Redis content cache, the conversation store, the chat POST handler and  *)
(* the page that calls it, the analytics route and the rate-limiting       *)
(* middleware.                                                             *)
(*                                                                         *)
(* Text is modelled as a run-length encoded sequence of symbols.  A symbol *)
(* is a TLA+ string standing for the characters it spells (a word, a       *)
(* punctuation mark, a white-space character); a run [s, n] is n copies of *)
(* the symbol s.  Lengths are counted in characters, as String.length does.*)
(***************************************************************************)
EXTENDS Integers, Sequences, FiniteSets, TLC

(***************************************************************************)
(* Strings                                                                 *)
(***************************************************************************)
Run(s, n) == [s |-> s, n |-> n]

W(s) == <<Run(s, 1)>>

Rep(s, n) == IF n <= 0 THEN << >> ELSE <<Run(s, n)>>

\* The characters a symbol spells.  "<telephone>" stands for the telephone
\* emoji, which is two UTF-16 code units long.
SymLen(s) == IF s = "<telephone>" THEN 2 ELSE Len(s)

RECURSIVE StrLen(_)
StrLen(str) ==
    IF str = << >> THEN 0
    ELSE IF Len(str) = 1 THEN str[1].n * SymLen(str[1].s)
    ELSE StrLen(SubSeq(str, 1, Len(str) \div 2))
         + StrLen(SubSeq(str, Len(str) \div 2 + 1, Len(str)))

\* Concatenation of two texts in which no two adjacent runs are of one symbol:
\* the runs that meet are merged when they are, so that equal texts are equal
\* values.
Cat(a, b) ==
    IF a = << >> THEN b
    ELSE IF b = << >> THEN a
    ELSE IF a[Len(a)].s = b[1].s
    THEN SubSeq(a, 1, Len(a) - 1) \o <<Run(b[1].s, a[Len(a)].n + b[1].n)>> \o Tail(b)
    ELSE a \o b

\* Merges adjacent runs of one symbol.
RECURSIVE Norm(_)
Norm(str) ==
    IF Len(str) <= 1 THEN str
    ELSE Cat(Norm(SubSeq(str, 1, Len(str) \div 2)),
             Norm(SubSeq(str, Len(str) \div 2 + 1, Len(str))))

\* Array.prototype.join: the parts separated by sep.
RECURSIVE Join(_, _)
Join(parts, sep) ==
    IF parts = << >> THEN << >>
    ELSE IF Len(parts) = 1 THEN parts[1]
    ELSE Cat(Cat(parts[1], sep), Join(Tail(parts), sep))

\* String.prototype.slice(0, limit) and substring(0, limit): the first limit
\* characters.  A symbol is never cut in two: every text that is cut here is
\* cut inside a run of one-character symbols.
RECURSIVE Slice(_, _)
Slice(str, limit) ==
    IF str = << >> \/ limit <= 0 THEN << >>
    ELSE LET h == Head(str)
             unit == SymLen(h.s)
             total == h.n * unit
         IN  IF total <= limit THEN <<h>> \o Slice(Tail(str), limit - total)
             ELSE Rep(h.s, limit \div unit)

IsSpace(s) == s \in {" ", "\n", "\t"}

RECURSIVE DropSpaces(_)
DropSpaces(str) ==
    IF str = << >> THEN << >>
    ELSE IF IsSpace(Head(str).s) THEN DropSpaces(Tail(str))
    ELSE str

\* replace(/\s+/g, " "): every maximal run of white space becomes one space.
RECURSIVE CollapseSpaces(_)
CollapseSpaces(str) ==
    IF str = << >> THEN << >>
    ELSE IF IsSpace(Head(str).s)
         THEN W(" ") \o CollapseSpaces(DropSpaces(Tail(str)))
         ELSE <<Head(str)>> \o CollapseSpaces(Tail(str))

\* String.prototype.trim
RECURSIVE TrimEnd(_)
TrimEnd(str) ==
    IF str = << >> THEN << >>
    ELSE IF IsSpace(str[Len(str)].s) THEN TrimEnd(SubSeq(str, 1, Len(str) - 1))
    ELSE str

Trim(str) == TrimEnd(DropSpaces(str))

cleanText(text) == Trim(CollapseSpaces(text))

(***************************************************************************)
(* JSON.  A serialized document is modelled by its token tree: the same    *)
(* structure with every string leaf in escaped form.  A property that is   *)
(* undefined is left out by JSON.stringify and is undefined after a parse. *)
(***************************************************************************)
StrLeaf(v) == [t |-> "str", v |-> v]

NullLeaf == [t |-> "null"]

Undefined == [t |-> "undef"]

JsonEscapeSym(s) ==
    CASE s = "\"" -> "\\\""
      [] s = "\\" -> "\\\\"
      [] s = "\n" -> "\\n"
      [] s = "\t" -> "\\t"
      [] OTHER -> s

JsonUnescapeSym(s) ==
    CASE s = "\\\"" -> "\""
      [] s = "\\\\" -> "\\"
      [] s = "\\n" -> "\n"
      [] s = "\\t" -> "\t"
      [] OTHER -> s

JsonEscape(str) ==
    [i \in 1..Len(str) |-> Run(JsonEscapeSym(str[i].s), str[i].n)] \o << >>

JsonUnescape(str) ==
    [i \in 1..Len(str) |-> Run(JsonUnescapeSym(str[i].s), str[i].n)] \o << >>

StringifyLeaf(leaf) == IF leaf.t = "str" THEN StrLeaf(JsonEscape(leaf.v)) ELSE leaf

ParseLeaf(leaf) == IF leaf.t = "str" THEN StrLeaf(JsonUnescape(leaf.v)) ELSE leaf

\* The characters a leaf takes in the serialized text: "..." or null.
LeafLength(leaf) ==
    CASE leaf.t = "str" -> StrLen(JsonEscape(leaf.v)) + Len("\"\"")
      [] leaf.t = "null" -> Len("null")
      [] OTHER -> 0

RECURSIVE Digits(_)
Digits(n) == IF n < 10 THEN 1 ELSE 1 + Digits(n \div 10)

\* JSON.stringify of a ScrapedContent / JSON.parse of the stored text.
JSON_stringify(content) ==
    [url |-> StringifyLeaf(content.url),
     title |-> StringifyLeaf(content.title),
     headings |-> IF content.headings.present
                  THEN [present |-> TRUE,
                        h1 |-> StringifyLeaf(content.headings.h1),
                        h2 |-> StringifyLeaf(content.headings.h2)]
                  ELSE content.headings,
     metaDescription |-> StringifyLeaf(content.metaDescription),
     content |-> StringifyLeaf(content.content),
     error |-> StringifyLeaf(content.error),
     cachedAt |-> content.cachedAt]

JSON_parse(text) ==
    [url |-> ParseLeaf(text.url),
     title |-> ParseLeaf(text.title),
     headings |-> IF text.headings.present
                  THEN [present |-> TRUE,
                        h1 |-> ParseLeaf(text.headings.h1),
                        h2 |-> ParseLeaf(text.headings.h2)]
                  ELSE text.headings,
     metaDescription |-> ParseLeaf(text.metaDescription),
     content |-> ParseLeaf(text.content),
     error |-> ParseLeaf(text.error),
     cachedAt |-> text.cachedAt]

\* serialized.length for a content that passed isValidScrapedContent, in the
\* property order of the object literal of scrapeUrl, cachedAt added last.
SerializedLength(content) ==
      Len("{\"url\":") + LeafLength(content.url)
    + Len(",\"title\":") + LeafLength(content.title)
    + Len(",\"headings\":{\"h1\":") + LeafLength(content.headings.h1)
    + Len(",\"h2\":") + LeafLength(content.headings.h2) + Len("}")
    + Len(",\"metaDescription\":") + LeafLength(content.metaDescription)
    + Len(",\"content\":") + LeafLength(content.content)
    + Len(",\"error\":") + LeafLength(content.error)
    + Len(",\"cachedAt\":") + Digits(content.cachedAt) + Len("}")

(***************************************************************************)
(* The scraper's constants                                                 *)
(***************************************************************************)
CACHE_TTL == 7 * (24 * 60 * 60)

MAX_CACHE_SIZE == 1024000

MAX_CONTENT_LENGTH == 40000

CONVERSATION_TTL == 60 * 60 * 24 * 7

(***************************************************************************)
(* The Redis store: key |-> entry.  An entry is the stored value and the   *)
(* time at which it expires (NoTTL: the key has no expiry).  Every command *)
(* either reaches the store or throws (the store is unreachable).          *)
(***************************************************************************)
NoEntry == [kind |-> "none"]

NoTTL == -1

JsonValue(text) == [kind |-> "json", text |-> text]

\* A stored string that JSON.parse rejects.
GarbageValue == [kind |-> "garbage"]

\* The empty string: a value that is falsy in JavaScript.
EmptyValue == [kind |-> "empty"]

redis_set(store, key, value, expireAt) ==
    [store EXCEPT ![key] = [value |-> value, exp |-> expireAt]]

redis_del(store, key) == [store EXCEPT ![key] = NoEntry]

redis_expire(store, key, expireAt) ==
    IF store[key] = NoEntry THEN store
    ELSE [store EXCEPT ![key] = [value |-> store[key].value, exp |-> expireAt]]

\* Date.now(), in milliseconds of the model's clock (which counts seconds).
DateNow(t) == t * 1000

(***************************************************************************)
(* scraper: isValidScrapedContent, getCacheKey, getCachedContent,          *)
(* cacheContent, scrapeUrl                                                 *)
(***************************************************************************)
\* "true", "false", or "TypeError" when data.headings is undefined and the
\* conjunction gets as far as reading data.headings.h1.
isValidScrapedContent(data) ==
    IF data.url.t # "str" \/ data.title.t # "str" THEN "false"
    ELSE IF ~data.headings.present THEN "TypeError"
    ELSE IF /\ data.headings.h1.t = "str"
            /\ data.headings.h2.t = "str"
            /\ data.metaDescription.t = "str"
            /\ data.content.t = "str"
            /\ data.error.t \in {"null", "str"}
         THEN "true"
         ELSE "false"

getCacheKey(url) == Cat(W("scrape:"), Slice(url, 200))

\* Mutant of getCachedContent: whatever parses is returned, unvalidated.
getCachedContent_Unvalidated(url, store, env) ==
    LET cacheKey == getCacheKey(url)
        cached == store[cacheKey]
        miss == [ret |-> NullLeaf, store |-> store, dels |-> 0]
        purge == [ret |-> NullLeaf,
                  store |-> IF env.delOk THEN redis_del(store, cacheKey) ELSE store,
                  dels |-> 1]
    IN  IF ~env.getOk THEN miss
        ELSE IF cached = NoEntry \/ cached.value.kind = "empty" THEN miss
        ELSE IF cached.value.kind = "garbage" THEN purge
        ELSE [ret |-> JSON_parse(cached.value.text), store |-> store, dels |-> 0]

\* env.getOk, env.delOk, env.setOk: whether redis.get / del / set reach the
\* store during this call.  ret is the ScrapedContent returned, or NullLeaf.
getCachedContent(url, store, env) ==
    LET cacheKey == getCacheKey(url)
        cached == store[cacheKey]
        miss == [ret |-> NullLeaf, store |-> store, dels |-> 0]
        purge == [ret |-> NullLeaf,
                  store |-> IF env.delOk THEN redis_del(store, cacheKey) ELSE store,
                  dels |-> 1]
    IN  IF ~env.getOk THEN miss
        ELSE IF cached = NoEntry \/ cached.value.kind = "empty" THEN miss
        ELSE IF cached.value.kind = "garbage" THEN purge
        ELSE LET parsed == JSON_parse(cached.value.text)
                 valid == isValidScrapedContent(parsed)
             IN  IF valid = "TypeError" THEN miss
                 ELSE IF valid = "true"
                      THEN [ret |-> parsed, store |-> store, dels |-> 0]
                      ELSE purge

\* Mutant of cacheContent: a record of exactly MAX_CACHE_SIZE is refused.
cacheContent_CapExclusive(url, content, store, env, t) ==
    LET cacheKey == getCacheKey(url)
        stamped == [content EXCEPT !.cachedAt = DateNow(t)]
        serialized == JSON_stringify(stamped)
        kept == [content |-> stamped, store |-> store, sets |-> 0]
    IN  IF isValidScrapedContent(stamped) # "true" THEN kept
        ELSE IF SerializedLength(stamped) >= MAX_CACHE_SIZE THEN kept
        ELSE [content |-> stamped,
              store |-> IF env.setOk
                        THEN redis_set(store, cacheKey, JsonValue(serialized),
                                       t + CACHE_TTL)
                        ELSE store,
              sets |-> 1]

\* Mutant of cacheContent: the size of the record is not checked.
cacheContent_NoCap(url, content, store, env, t) ==
    LET cacheKey == getCacheKey(url)
        stamped == [content EXCEPT !.cachedAt = DateNow(t)]
        serialized == JSON_stringify(stamped)
        kept == [content |-> stamped, store |-> store, sets |-> 0]
    IN  IF isValidScrapedContent(stamped) # "true" THEN kept
        ELSE [content |-> stamped,
              store |-> IF env.setOk
                        THEN redis_set(store, cacheKey, JsonValue(serialized),
                                       t + CACHE_TTL)
                        ELSE store,
              sets |-> 1]

\* Mutant of cacheContent: redis.set is given no expiry.
cacheContent_NoExpiry(url, content, store, env, t) ==
    LET cacheKey == getCacheKey(url)
        stamped == [content EXCEPT !.cachedAt = DateNow(t)]
        serialized == JSON_stringify(stamped)
        kept == [content |-> stamped, store |-> store, sets |-> 0]
    IN  IF isValidScrapedContent(stamped) # "true" THEN kept
        ELSE IF SerializedLength(stamped) > MAX_CACHE_SIZE THEN kept
        ELSE [content |-> stamped,
              store |-> IF env.setOk
                        THEN redis_set(store, cacheKey, JsonValue(serialized), NoTTL)
                        ELSE store,
              sets |-> 1]

\* content is the caller's object: cacheContent stamps cachedAt on it.
cacheContent(url, content, store, env, t) ==
    LET cacheKey == getCacheKey(url)
        stamped == [content EXCEPT !.cachedAt = DateNow(t)]
        serialized == JSON_stringify(stamped)
        kept == [content |-> stamped, store |-> store, sets |-> 0]
    IN  IF isValidScrapedContent(stamped) # "true" THEN kept
        ELSE IF SerializedLength(stamped) > MAX_CACHE_SIZE THEN kept
        ELSE [content |-> stamped,
              store |-> IF env.setOk
                        THEN redis_set(store, cacheKey, JsonValue(serialized),
                                       t + CACHE_TTL)
                        ELSE store,
              sets |-> 1]

\* What cheerio extracts from the page that axios.get returned.
combinedContent(page) ==
    Slice(cleanText(Join(<<page.title, page.metaDescription, page.h1, page.h2,
                           page.articleText, page.mainText, page.contentText,
                           page.paragraphs, page.listItems>>, W(" "))),
          MAX_CONTENT_LENGTH)

finalResponse(url, page) ==
    [url |-> StrLeaf(url),
     title |-> StrLeaf(cleanText(page.title)),
     headings |-> [present |-> TRUE,
                   h1 |-> StrLeaf(cleanText(page.h1)),
                   h2 |-> StrLeaf(cleanText(page.h2))],
     metaDescription |-> StrLeaf(cleanText(page.metaDescription)),
     content |-> StrLeaf(combinedContent(page)),
     error |-> NullLeaf,
     cachedAt |-> -1]

failedResponse(url) ==
    [url |-> StrLeaf(url),
     title |-> StrLeaf(<< >>),
     headings |-> [present |-> TRUE, h1 |-> StrLeaf(<< >>), h2 |-> StrLeaf(<< >>)],
     metaDescription |-> StrLeaf(<< >>),
     content |-> StrLeaf(<< >>),
     error |-> StrLeaf(W("Failed to scrape URL")),
     cachedAt |-> -1]

HttpThrows == [kind |-> "throws"]

(***************************************************************************)
(* Inputs of the cache model: URLs, fetched pages, stored values           *)
(***************************************************************************)
UrlShort == W("https://ce.uhcc.hawaii.edu/portal/logon.do")

\* Two URLs of more than 200 characters that agree on their first 200.
UrlLongA == Cat(W("https://a.edu/"), Rep("p", 200))

UrlLongB == Cat(UrlLongA, W("q"))

Urls == {UrlShort, UrlLongA, UrlLongB}

EmptyPage ==
    [title |-> << >>, metaDescription |-> << >>, h1 |-> << >>, h2 |-> << >>,
     articleText |-> << >>, mainText |-> << >>, contentText |-> << >>,
     paragraphs |-> << >>, listItems |-> << >>]

\* A page whose texts carry white space to normalise and characters that
\* JSON escapes.
PageQuoted ==
    [EmptyPage EXCEPT
        !.title = <<Run(" ", 2), Run("Login", 1), Run("\n", 1)>>,
        !.h1 = <<Run("\"", 1), Run("\t", 1), Run("\n", 2), Run("\\", 2)>>]

PageFilled(n) == [EmptyPage EXCEPT !.title = Rep("x", n)]

\* The title length at which the record scraped from UrlShort at time 0
\* serializes to exactly MAX_CACHE_SIZE characters (beyond the content cap the
\* serialized length grows by one per title character).
FitFill ==
    LET probe == 2 * MAX_CONTENT_LENGTH
        doc == [finalResponse(UrlShort, PageFilled(probe)) EXCEPT !.cachedAt = 0]
    IN  MAX_CACHE_SIZE - (SerializedLength(doc) - probe)

PageFit == PageFilled(FitFill)

PageTooLarge == PageFilled(FitFill + 1)

HttpPages == {PageQuoted, PageFit, PageTooLarge}

HttpOutcomes == HttpPages \cup {HttpThrows}

\* The record each page yields for each URL (finalResponse, tabulated).
Extracted == [u \in Urls |-> [p \in HttpPages |-> finalResponse(u, p)]]

\* Which of the commands get, del, set reach the store during one call, and
\* what the HTTP GET yields.
Envs == [getOk : BOOLEAN, delOk : BOOLEAN, setOk : BOOLEAN, http : HttpOutcomes]

\* A well-formed cached record, and records that are corrupt in the ways
\* isValidScrapedContent tells apart.
StoredGood(url) == [finalResponse(url, PageQuoted) EXCEPT !.cachedAt = 0]

StoredNoTitle(url) == [StoredGood(url) EXCEPT !.title = Undefined]

StoredNoH1(url) == [StoredGood(url) EXCEPT !.headings.h1 = Undefined]

StoredNoHeadings(url) == [StoredGood(url) EXCEPT !.headings = [present |-> FALSE]]

InitialValues(url) ==
    {GarbageValue, EmptyValue} \cup
    {JsonValue(JSON_stringify(d)) :
        d \in {StoredGood(url), StoredNoTitle(url), StoredNoH1(url),
               StoredNoHeadings(url)}}

CacheKeys == {getCacheKey(u) : u \in Urls}

\* The URL under which an entry found at start-up was cached.
UrlOfKey(k) == CHOOSE u \in {UrlShort, UrlLongA} : getCacheKey(u) = k

InitialEntries(k) ==
    {NoEntry} \cup {[value |-> v, exp |-> CACHE_TTL] : v \in InitialValues(UrlOfKey(k))}

\* Mutant of scrapeUrl: the page is fetched and cached again on a hit.
scrapeUrl_AlwaysFetch(url, store, env, t) ==
    LET c == getCachedContent(url, store, env)
    IN  IF env.http = HttpThrows
        THEN [ret |-> failedResponse(url), store |-> c.store, hit |-> FALSE,
              httpGets |-> 1, sets |-> 0, dels |-> c.dels]
        ELSE LET w == cacheContent(url, Extracted[url][env.http], c.store, env, t)
             IN  [ret |-> w.content, store |-> w.store, hit |-> FALSE,
                  httpGets |-> 1, sets |-> w.sets, dels |-> c.dels]

\* Mutant of scrapeUrl: the extracted record is returned without being cached.
scrapeUrl_NoCacheWrite(url, store, env, t) ==
    LET c == getCachedContent(url, store, env)
    IN  IF c.ret # NullLeaf
        THEN [ret |-> c.ret, store |-> c.store, hit |-> TRUE,
              httpGets |-> 0, sets |-> 0, dels |-> c.dels]
        ELSE IF env.http = HttpThrows
        THEN [ret |-> failedResponse(url), store |-> c.store, hit |-> FALSE,
              httpGets |-> 1, sets |-> 0, dels |-> c.dels]
        ELSE [ret |-> [Extracted[url][env.http] EXCEPT !.cachedAt = DateNow(t)],
              store |-> c.store, hit |-> FALSE,
              httpGets |-> 1, sets |-> 1, dels |-> c.dels]

\* env.http is the page fetched and parsed, or HttpThrows when axios.get or
\* cheerio.load throws.
scrapeUrl(url, store, env, t) ==
    LET c == getCachedContent(url, store, env)
    IN  IF c.ret # NullLeaf
        THEN [ret |-> c.ret, store |-> c.store, hit |-> TRUE,
              httpGets |-> 0, sets |-> 0, dels |-> c.dels]
        ELSE IF env.http = HttpThrows
        THEN [ret |-> failedResponse(url), store |-> c.store, hit |-> FALSE,
              httpGets |-> 1, sets |-> 0, dels |-> c.dels]
        ELSE LET w == cacheContent(url, Extracted[url][env.http], c.store, env, t)
             IN  [ret |-> w.content, store |-> w.store, hit |-> FALSE,
                  httpGets |-> 1, sets |-> w.sets, dels |-> c.dels]

(***************************************************************************)
(* Conversation store: saveConversation, getConversation                   *)
(***************************************************************************)
\* A message of a conversation.  The messages the page keeps for the
\* assistant also carry the options and the showInput of the response.
Message(role, content) ==
    [role |-> role, content |-> StrLeaf(content),
     options |-> Undefined, showInput |-> Undefined]

\* JSON.stringify / JSON.parse of the options property of a message.
StringifyOptions(leaf) ==
    IF leaf.t # "array" THEN leaf
    ELSE [t |-> "array",
          v |-> [i \in 1..Len(leaf.v) |->
                    [leaf.v[i] EXCEPT !.text = StringifyLeaf(leaf.v[i].text),
                                      !.action = StringifyLeaf(leaf.v[i].action)]]
                \o << >>]

ParseOptions(leaf) ==
    IF leaf.t # "array" THEN leaf
    ELSE [t |-> "array",
          v |-> [i \in 1..Len(leaf.v) |->
                    [leaf.v[i] EXCEPT !.text = ParseLeaf(leaf.v[i].text),
                                      !.action = ParseLeaf(leaf.v[i].action)]]
                \o << >>]

RECURSIVE StringifyMessages(_)
StringifyMessages(messages) ==
    IF messages = << >> THEN << >>
    ELSE <<[role |-> Head(messages).role,
            content |-> StringifyLeaf(Head(messages).content),
            options |-> StringifyOptions(Head(messages).options),
            showInput |-> Head(messages).showInput]>>
         \o StringifyMessages(Tail(messages))

RECURSIVE ParseMessages(_)
ParseMessages(text) ==
    IF text = << >> THEN << >>
    ELSE <<[role |-> Head(text).role,
            content |-> ParseLeaf(Head(text).content),
            options |-> ParseOptions(Head(text).options),
            showInput |-> Head(text).showInput]>>
         \o ParseMessages(Tail(text))

conversationKey(id) == Cat(W("conversation:"), W(id))

\* Mutant of saveConversationSet: the list is appended to what the key holds.
saveConversationSet_Append(id, messages, store) ==
    LET held == store[conversationKey(id)]
    IN  redis_set(store, conversationKey(id),
                  JsonValue(IF held = NoEntry THEN StringifyMessages(messages)
                            ELSE held.value.text \o StringifyMessages(messages)),
                  NoTTL)

\* saveConversation, first await: redis.set without an expiry.  SET replaces
\* the value and clears whatever TTL the key had.
saveConversationSet(id, messages, store) ==
    redis_set(store, conversationKey(id), JsonValue(StringifyMessages(messages)), NoTTL)

\* saveConversation, second await: redis.expire.
saveConversationExpire(id, store, t) ==
    redis_expire(store, conversationKey(id), t + CONVERSATION_TTL)

\* The messages returned, or NullLeaf.
getConversation(id, store, getOk) ==
    LET data == store[conversationKey(id)]
    IN  IF ~getOk THEN NullLeaf
        ELSE IF data = NoEntry \/ data.value.kind = "empty" THEN NullLeaf
        ELSE IF data.value.kind = "garbage" THEN NullLeaf
        ELSE [messages |-> ParseMessages(data.value.text)]

(***************************************************************************)
(* Text tests of the chat route: toLowerCase and includes                  *)
(***************************************************************************)
Str(items) == [i \in 1..Len(items) |-> Run(items[i], 1)] \o << >>

\* n characters that none of the program's tests looks at.
Fill(n) == Rep("_", n)

LowerSym(s) ==
    CASE s = "I" -> "i"
      [] s = "Jo@Hawaii.edu" -> "jo@hawaii.edu"
      [] s = "Hello" -> "hello"
      [] s = "Thanks" -> "thanks"
      [] s = "Success" -> "success"
      [] s = "It" -> "it"
      [] s = "What" -> "what"
      [] s = "Go" -> "go"
      [] s = "RIGHT" -> "right"
      [] s = "SIDE" -> "side"
      [] s = "IS" -> "is"
      [] s = "Forgot" -> "forgot"
      [] s = "Username" -> "username"
      [] s = "Password" -> "password"
      [] s = "Enter" -> "enter"
      [] s = "Have" -> "have"
      [] s = "Check" -> "check"
      [] s = "Did" -> "did"
      [] s = "Click" -> "click"
      [] s = "Login" -> "login"
      [] s = "Start" -> "start"
      [] s = "Got" -> "got"
      [] s = "Yes" -> "yes"
      [] s = "Not" -> "not"
      [] s = "Found" -> "found"
      [] s = "Nothing" -> "nothing"
      [] s = "Wrong" -> "wrong"
      [] s = "Email" -> "email"
      [] s = "Try" -> "try"
      [] s = "Tried" -> "tried"
      [] s = "Shows" -> "shows"
      [] OTHER -> s

LowerRuns(str) ==
    [i \in 1..Len(str) |-> Run(LowerSym(str[i].s), str[i].n)] \o << >>

\* String.prototype.toLowerCase
toLowerCase(str) == Norm(LowerRuns(str))

\* The needle occurs in hay at run i: its inner runs are matched exactly, its
\* first and last run by at least as many copies.
MatchAt(hay, i, needle) ==
    \A j \in 1..Len(needle) :
        /\ hay[i + j - 1].s = needle[j].s
        /\ IF 1 < j /\ j < Len(needle)
           THEN hay[i + j - 1].n = needle[j].n
           ELSE hay[i + j - 1].n >= needle[j].n

\* String.prototype.includes
Includes(hay, needle) ==
    \E i \in 1..(Len(hay) - Len(needle) + 1) : MatchAt(hay, i, needle)

Has(text, words) == Includes(text, Str(words))

Min(a, b) == IF a <= b THEN a ELSE b

\* Array.prototype.slice(-n)
LastN(seq, n) == SubSeq(seq, Len(seq) - Min(n, Len(seq)) + 1, Len(seq))

(***************************************************************************)
(* chat route: getUserState, getResponseForState                           *)
(***************************************************************************)
RECURSIVE LowerContents(_)
LowerContents(messages) ==
    IF messages = << >> THEN << >>
    ELSE <<IF Head(messages).content.t = "str"
           THEN toLowerCase(Head(messages).content.v)
           ELSE << >> >>
         \o LowerContents(Tail(messages))

\* Mutant of getUserState: the completion rule is looked at before the restart
\* rule.
getUserState_CompleteFirst(messages) ==
    LET messageHistory == LowerContents(messages)
        allMessages == Join(messageHistory, W(" "))
        lastFewMessages == Join(LastN(messageHistory, 3), W(" "))
    IN  IF /\ Has(allMessages, <<"successfully">>)
                /\ \/ Has(allMessages, <<"logged", " ", "in">>)
                   \/ Has(allMessages, <<"reset", " ", "password">>)
                   \/ Has(allMessages, <<"i'm", " ", "in">>)
                   \/ Has(allMessages, <<"it", " ", "worked">>)
        THEN "process_complete"
        ELSE IF \/ Has(lastFewMessages, <<"start", " ", "over">>)
           \/ Has(lastFewMessages, <<"try", " ", "different", " ", "email">>)
           \/ Has(lastFewMessages, <<"wrong", " ", "email">>)
           \/ Has(lastFewMessages, <<"different", " ", "email">>)
           \/ Has(lastFewMessages, <<"not", " ", "working">>)
           \/ Has(lastFewMessages, <<"still", " ", "not", " ", "getting">>)
           \/ Has(lastFewMessages, <<"not", " ", "receiving">>)
           \/ Has(lastFewMessages, <<"nothing", " ", "in", " ", "spam">>)
        THEN "restart_needed"
        ELSE IF /\ Has(allMessages, <<"password", " ", "reset">>)
                /\ \/ Has(allMessages, <<"email">>)
                   \/ Has(allMessages, <<"link">>)
                   \/ Has(allMessages, <<"got", " ", "the", " ", "reset">>)
        THEN "password_reset_in_progress"
        ELSE IF \/ Has(allMessages, <<"got", " ", "my", " ", "username">>)
                \/ Has(allMessages, <<"have", " ", "username">>)
                \/ Has(allMessages, <<"received", " ", "username">>)
                \/ Has(allMessages, <<"found", " ", "my", " ", "username">>)
                \/ Has(allMessages, <<"username", " ", "from", " ", "email">>)
                \/ Has(allMessages, <<"found", " ", "it", "!">>)
        THEN "ready_for_password_reset"
        ELSE IF /\ Has(allMessages, <<"username">>)
                /\ \/ Has(allMessages, <<"sent">>)
                   \/ Has(allMessages, <<"check", " ", "your", " ", "email">>)
                   \/ Has(allMessages, <<"email", " ", "sent">>)
        THEN "username_email_sent"
        ELSE IF \/ Has(allMessages, <<"existing", " ", "student", " ", "record">>)
                \/ Has(allMessages, <<"validation", " ", "error">>)
                \/ Has(allMessages, <<"email", " ", "exists">>)
                \/ Has(allMessages, <<"email", " ", "is", " ", "in", " ", "the", " ", "system">>)
                \/ (Has(allMessages, <<"error">>) /\ Has(allMessages, <<"good">>))
        THEN "email_validated_ready_for_username"
        ELSE IF \/ Has(lastFewMessages, <<"new", " ", "user">>)
                \/ Has(lastFewMessages, <<"right", " ", "side">>)
                \/ Has(lastFewMessages, <<"checking", " ", "email">>)
        THEN "checking_email_validation"
        ELSE IF \/ Has(allMessages, <<"invalid", " ", "email">>)
                \/ Has(allMessages, <<"invalid", " ", "password">>)
                \/ Has(allMessages, <<"login", " ", "error">>)
                \/ Has(allMessages, <<"can't", " ", "log", " ", "in">>)
                \/ Has(allMessages, <<"won't", " ", "let", " ", "me">>)
                \/ Has(allMessages, <<"locked", " ", "out">>)
        THEN "has_login_error"
        ELSE "initial"

\* Mutant of getUserState: the login error rule is looked at before the rule of
\* the new user section.
getUserState_LoginErrorFirst(messages) ==
    LET messageHistory == LowerContents(messages)
        allMessages == Join(messageHistory, W(" "))
        lastFewMessages == Join(LastN(messageHistory, 3), W(" "))
    IN  IF \/ Has(lastFewMessages, <<"start", " ", "over">>)
           \/ Has(lastFewMessages, <<"try", " ", "different", " ", "email">>)
           \/ Has(lastFewMessages, <<"wrong", " ", "email">>)
           \/ Has(lastFewMessages, <<"different", " ", "email">>)
           \/ Has(lastFewMessages, <<"not", " ", "working">>)
           \/ Has(lastFewMessages, <<"still", " ", "not", " ", "getting">>)
           \/ Has(lastFewMessages, <<"not", " ", "receiving">>)
           \/ Has(lastFewMessages, <<"nothing", " ", "in", " ", "spam">>)
        THEN "restart_needed"
        ELSE IF /\ Has(allMessages, <<"successfully">>)
                /\ \/ Has(allMessages, <<"logged", " ", "in">>)
                   \/ Has(allMessages, <<"reset", " ", "password">>)
                   \/ Has(allMessages, <<"i'm", " ", "in">>)
                   \/ Has(allMessages, <<"it", " ", "worked">>)
        THEN "process_complete"
        ELSE IF /\ Has(allMessages, <<"password", " ", "reset">>)
                /\ \/ Has(allMessages, <<"email">>)
                   \/ Has(allMessages, <<"link">>)
                   \/ Has(allMessages, <<"got", " ", "the", " ", "reset">>)
        THEN "password_reset_in_progress"
        ELSE IF \/ Has(allMessages, <<"got", " ", "my", " ", "username">>)
                \/ Has(allMessages, <<"have", " ", "username">>)
                \/ Has(allMessages, <<"received", " ", "username">>)
                \/ Has(allMessages, <<"found", " ", "my", " ", "username">>)
                \/ Has(allMessages, <<"username", " ", "from", " ", "email">>)
                \/ Has(allMessages, <<"found", " ", "it", "!">>)
        THEN "ready_for_password_reset"
        ELSE IF /\ Has(allMessages, <<"username">>)
                /\ \/ Has(allMessages, <<"sent">>)
                   \/ Has(allMessages, <<"check", " ", "your", " ", "email">>)
                   \/ Has(allMessages, <<"email", " ", "sent">>)
        THEN "username_email_sent"
        ELSE IF \/ Has(allMessages, <<"existing", " ", "student", " ", "record">>)
                \/ Has(allMessages, <<"validation", " ", "error">>)
                \/ Has(allMessages, <<"email", " ", "exists">>)
                \/ Has(allMessages, <<"email", " ", "is", " ", "in", " ", "the", " ", "system">>)
                \/ (Has(allMessages, <<"error">>) /\ Has(allMessages, <<"good">>))
        THEN "email_validated_ready_for_username"
        ELSE IF \/ Has(allMessages, <<"invalid", " ", "email">>)
                \/ Has(allMessages, <<"invalid", " ", "password">>)
                \/ Has(allMessages, <<"login", " ", "error">>)
                \/ Has(allMessages, <<"can't", " ", "log", " ", "in">>)
                \/ Has(allMessages, <<"won't", " ", "let", " ", "me">>)
                \/ Has(allMessages, <<"locked", " ", "out">>)
        THEN "has_login_error"
        ELSE IF \/ Has(lastFewMessages, <<"new", " ", "user">>)
                \/ Has(lastFewMessages, <<"right", " ", "side">>)
                \/ Has(lastFewMessages, <<"checking", " ", "email">>)
        THEN "checking_email_validation"
        ELSE "initial"

getUserState(messages) ==
    LET messageHistory == LowerContents(messages)
        allMessages == Join(messageHistory, W(" "))
        lastFewMessages == Join(LastN(messageHistory, 3), W(" "))
    IN  IF \/ Has(lastFewMessages, <<"start", " ", "over">>)
           \/ Has(lastFewMessages, <<"try", " ", "different", " ", "email">>)
           \/ Has(lastFewMessages, <<"wrong", " ", "email">>)
           \/ Has(lastFewMessages, <<"different", " ", "email">>)
           \/ Has(lastFewMessages, <<"not", " ", "working">>)
           \/ Has(lastFewMessages, <<"still", " ", "not", " ", "getting">>)
           \/ Has(lastFewMessages, <<"not", " ", "receiving">>)
           \/ Has(lastFewMessages, <<"nothing", " ", "in", " ", "spam">>)
        THEN "restart_needed"
        ELSE IF /\ Has(allMessages, <<"successfully">>)
                /\ \/ Has(allMessages, <<"logged", " ", "in">>)
                   \/ Has(allMessages, <<"reset", " ", "password">>)
                   \/ Has(allMessages, <<"i'm", " ", "in">>)
                   \/ Has(allMessages, <<"it", " ", "worked">>)
        THEN "process_complete"
        ELSE IF /\ Has(allMessages, <<"password", " ", "reset">>)
                /\ \/ Has(allMessages, <<"email">>)
                   \/ Has(allMessages, <<"link">>)
                   \/ Has(allMessages, <<"got", " ", "the", " ", "reset">>)
        THEN "password_reset_in_progress"
        ELSE IF \/ Has(allMessages, <<"got", " ", "my", " ", "username">>)
                \/ Has(allMessages, <<"have", " ", "username">>)
                \/ Has(allMessages, <<"received", " ", "username">>)
                \/ Has(allMessages, <<"found", " ", "my", " ", "username">>)
                \/ Has(allMessages, <<"username", " ", "from", " ", "email">>)
                \/ Has(allMessages, <<"found", " ", "it", "!">>)
        THEN "ready_for_password_reset"
        ELSE IF /\ Has(allMessages, <<"username">>)
                /\ \/ Has(allMessages, <<"sent">>)
                   \/ Has(allMessages, <<"check", " ", "your", " ", "email">>)
                   \/ Has(allMessages, <<"email", " ", "sent">>)
        THEN "username_email_sent"
        ELSE IF \/ Has(allMessages, <<"existing", " ", "student", " ", "record">>)
                \/ Has(allMessages, <<"validation", " ", "error">>)
                \/ Has(allMessages, <<"email", " ", "exists">>)
                \/ Has(allMessages, <<"email", " ", "is", " ", "in", " ", "the", " ", "system">>)
                \/ (Has(allMessages, <<"error">>) /\ Has(allMessages, <<"good">>))
        THEN "email_validated_ready_for_username"
        ELSE IF \/ Has(lastFewMessages, <<"new", " ", "user">>)
                \/ Has(lastFewMessages, <<"right", " ", "side">>)
                \/ Has(lastFewMessages, <<"checking", " ", "email">>)
        THEN "checking_email_validation"
        ELSE IF \/ Has(allMessages, <<"invalid", " ", "email">>)
                \/ Has(allMessages, <<"invalid", " ", "password">>)
                \/ Has(allMessages, <<"login", " ", "error">>)
                \/ Has(allMessages, <<"can't", " ", "log", " ", "in">>)
                \/ Has(allMessages, <<"won't", " ", "let", " ", "me">>)
                \/ Has(allMessages, <<"locked", " ", "out">>)
        THEN "has_login_error"
        ELSE "initial"

(***************************************************************************)
(* chat route, second variant: analyzeUserState                            *)
(***************************************************************************)
\* The addresses the texts of this model hold, each one symbol.
EmailSyms == {"jo@hawaii.edu", "Jo@Hawaii.edu", "kai@hawaii.edu"}

\* content?.match(/([a-zA-Z0-9._-]+@[a-zA-Z0-9._-]+\.[a-zA-Z0-9_-]+)/g), the
\* matches lowered
EmailMatches(content) ==
    IF content.t # "str" THEN << >>
    ELSE LET found == SelectSeq(content.v, LAMBDA r : r.s \in EmailSyms)
         IN  [i \in 1..Len(found) |-> LowerSym(found[i].s)] \o << >>

RECURSIVE PushNew(_, _)
PushNew(list, emails) ==
    IF emails = << >> THEN list
    ELSE PushNew(IF \E i \in 1..Len(list) : list[i] = Head(emails)
                 THEN list ELSE Append(list, Head(emails)),
                 Tail(emails))

RECURSIVE attemptedEmailsOf(_, _)
attemptedEmailsOf(messages, list) ==
    IF messages = << >> THEN list
    ELSE attemptedEmailsOf(Tail(messages),
                           PushNew(list, EmailMatches(Head(messages).content)))

frustrationIndicators ==
    << <<"not", " ", "working">>, <<"still", " ", "not">>, <<"nothing">>,
       <<"can't", " ", "find">>, <<"help">>, <<"frustrated">>, <<"stuck">>,
       <<"doesn't", " ", "work">>, <<"tried", " ", "everything">> >>

stuckIndicatorsOf(lastFewMessages) ==
    Cardinality({i \in 1..Len(frustrationIndicators) :
                    Has(lastFewMessages, frustrationIndicators[i])})

\* includes("success"): the words of the texts that hold it
IncludesSuccess(text) ==
    Has(text, <<"success">>) \/ Has(text, <<"successfully">>)

\* The lowered content of the last message of the assistant, or "".
lastAIMessageOf(messages) ==
    LET ai == SelectSeq(messages, LAMBDA m : m.role = "assistant")
    IN  IF ai = << >> THEN << >>
        ELSE IF ai[Len(ai)].content.t = "str"
        THEN toLowerCase(ai[Len(ai)].content.v)
        ELSE << >>

NewContext ==
    [state |-> "initial", stepNumber |-> 0, attemptedEmails |-> << >>,
     stuckIndicators |-> 0, lastSuccessfulStep |-> 0,
     userSentiment |-> "neutral"]

\* The emails, the stuck indicators and the sentiment.
sentimentStep(context, messages, lastFewMessages) ==
    LET stuck == context.stuckIndicators + stuckIndicatorsOf(lastFewMessages)
    IN  [context EXCEPT
            !.attemptedEmails = attemptedEmailsOf(messages, context.attemptedEmails),
            !.stuckIndicators = stuck,
            !.userSentiment =
                IF stuck >= 3 THEN "frustrated"
                ELSE IF \/ Has(lastFewMessages, <<"great">>)
                        \/ Has(lastFewMessages, <<"thanks">>)
                        \/ Has(lastFewMessages, <<"perfect">>)
                THEN "positive"
                ELSE context.userSentiment]

\* The step the assistant is instructing.
instructedStep(c0, lastAIMessage) ==
    IF \/ Has(lastAIMessage, <<"i", " ", "am", " ", "a", " ", "new", " ", "user">>)
       \/ Has(lastAIMessage, <<"right", " ", "side">>)
       \/ Has(lastAIMessage, <<"test", " ", "your", " ", "email">>)
       \/ Has(lastAIMessage, <<"try", " ", "a", " ", "different", " ", "email">>)
    THEN [c0 EXCEPT !.state = "checking_email_validation", !.stepNumber = 1]
    ELSE IF /\ Has(lastAIMessage, <<"validation", " ", "error">>)
            /\ Has(lastAIMessage, <<"excellent">>)
    THEN [c0 EXCEPT !.state = "email_validated_ready_for_username",
                    !.stepNumber = 2]
    ELSE IF \/ Has(lastAIMessage, <<"forgot", " ", "username">>)
            \/ Has(lastAIMessage, <<"left", " ", "side">>)
    THEN [c0 EXCEPT !.state = "email_validated_ready_for_username",
                    !.stepNumber = 2]
    ELSE IF /\ Has(lastAIMessage, <<"check", " ", "your", " ", "email">>)
            /\ Has(lastAIMessage, <<"username">>)
    THEN [c0 EXCEPT !.state = "username_email_sent", !.stepNumber = 3]
    ELSE IF Has(lastAIMessage, <<"forgot", " ", "password">>)
    THEN [c0 EXCEPT !.state = "ready_for_password_reset", !.stepNumber = 4]
    ELSE IF \/ Has(lastAIMessage, <<"reset", " ", "link">>)
            \/ Has(lastAIMessage, <<"password", " ", "reset", " ", "email">>)
    THEN [c0 EXCEPT !.state = "password_reset_in_progress", !.stepNumber = 5]
    ELSE IF /\ IncludesSuccess(lastAIMessage)
            /\ Has(lastAIMessage, <<"logged">>)
    THEN [c0 EXCEPT !.state = "process_complete", !.stepNumber = 6]
    ELSE c0

\* The restart scenarios.
restartStep(c1, lastFewMessages, lastAIMessage) ==
    IF \/ Has(lastFewMessages, <<"start", " ", "over">>)
       \/ Has(lastFewMessages, <<"try", " ", "different", " ", "email">>)
       \/ Has(lastFewMessages, <<"wrong", " ", "email">>)
       \/ Has(lastFewMessages, <<"contact", " ", "form">>)
       \/ /\ Has(lastAIMessage, <<"different", " ", "email">>)
          /\ Has(lastAIMessage, <<"i", " ", "am", " ", "a", " ", "new", " ", "user">>)
    THEN [c1 EXCEPT !.state = "restart_needed", !.stepNumber = 1]
    ELSE c1

\* What the user said, looked at when nothing above has named a state.
userPatternStep(c2, allMessages) ==
    IF c2.state # "initial" THEN c2
    ELSE IF /\ Has(allMessages, <<"successfully">>)
            /\ \/ Has(allMessages, <<"logged", " ", "in">>)
               \/ Has(allMessages, <<"reset", " ", "password">>)
               \/ Has(allMessages, <<"i'm", " ", "in">>)
               \/ Has(allMessages, <<"it", " ", "worked">>)
    THEN [c2 EXCEPT !.state = "process_complete", !.stepNumber = 6,
                    !.lastSuccessfulStep = 6]
    ELSE IF /\ Has(allMessages, <<"password", " ", "reset">>)
            /\ \/ Has(allMessages, <<"email">>)
               \/ Has(allMessages, <<"link">>)
               \/ Has(allMessages, <<"got", " ", "the", " ", "reset">>)
    THEN [c2 EXCEPT !.state = "password_reset_in_progress", !.stepNumber = 5,
                    !.lastSuccessfulStep = 4]
    ELSE IF \/ Has(allMessages, <<"got", " ", "my", " ", "username">>)
            \/ Has(allMessages, <<"have", " ", "username">>)
            \/ Has(allMessages, <<"received", " ", "username">>)
            \/ Has(allMessages, <<"found", " ", "my", " ", "username">>)
    THEN [c2 EXCEPT !.state = "ready_for_password_reset", !.stepNumber = 4,
                    !.lastSuccessfulStep = 3]
    ELSE IF \/ Has(allMessages, <<"existing", " ", "student", " ", "record">>)
            \/ Has(allMessages, <<"validation", " ", "error">>)
            \/ Has(allMessages, <<"email", " ", "exists">>)
    THEN [c2 EXCEPT !.state = "email_validated_ready_for_username",
                    !.stepNumber = 2, !.lastSuccessfulStep = 1]
    ELSE IF \/ Has(allMessages, <<"invalid", " ", "email">>)
            \/ Has(allMessages, <<"invalid", " ", "password">>)
            \/ Has(allMessages, <<"login", " ", "error">>)
            \/ Has(allMessages, <<"can't", " ", "log", " ", "in">>)
    THEN [c2 EXCEPT !.state = "has_login_error", !.stepNumber = 1]
    ELSE c2

\* analyzeUserState on a given context; the code starts from a new one.
analyzeFrom(context, messages) ==
    LET messageHistory == LowerContents(messages)
        allMessages == Join(messageHistory, W(" "))
        lastFewMessages == Join(LastN(messageHistory, 3), W(" "))
        lastAIMessage == lastAIMessageOf(messages)
        c0 == sentimentStep(context, messages, lastFewMessages)
        c1 == instructedStep(c0, lastAIMessage)
        c2 == restartStep(c1, lastFewMessages, lastAIMessage)
    IN  userPatternStep(c2, allMessages)

analyzeUserState(messages) == analyzeFrom(NewContext, messages)

\* The canned messages.  Each keeps, in place, the words that one of the
\* program's tests looks for; the text between them is Fill.
InitialMessage ==
    Fill(87) \o Str(<<"What">>) \o Fill(35) \o Str(<<"?">>) \o Fill(30)
    \o Str(<<"error">>) \o Fill(8) \o Str(<<"?">>) \o Fill(37)
    \o Str(<<"login", " ", "error">>) \o Fill(17) \o Str(<<"check">>)
    \o Fill(12) \o Str(<<"email">>) \o Fill(35) \o Str(<<"new", " ", "user">>)
    \o Fill(60) \o Str(<<"logon">>) \o Fill(3) \o Str(<<"?">>) \o Fill(36)
    \o Str(<<"login">>) \o Fill(10)

LoginErrorMessage ==
    Fill(23) \o Str(<<"login", " ", "error">>) \o Fill(96) \o Str(<<"check">>)
    \o Fill(9)
    \o Str(<<"email", " ", "is", " ", "in", " ", "the", " ", "system">>)
    \o Fill(2) \o Str(<<"Go", " ", "to">>) \o Fill(48) \o Str(<<"logon">>)
    \o Fill(3) \o Str(<<"?">>) \o Fill(36) \o Str(<<"login">>) \o Fill(27)
    \o Str(<<"RIGHT", " ", "SIDE">>) \o Fill(23) \o Str(<<"new", " ", "user">>)
    \o Fill(4) \o Str(<<"click">>) \o Fill(11) \o Str(<<"enter">>) \o Fill(6)
    \o Str(<<"email">>) \o Fill(3) \o Str(<<"What", " ", "happens">>)
    \o Fill(17) \o Str(<<"?">>)

CheckingEmailMessage ==
    Fill(29) \o Str(<<"email">>) \o Fill(16) \o Str(<<"new", " ", "user">>)
    \o Fill(39) \o Str(<<"validation", " ", "error">>) \o Fill(24)
    \o Str(<<"email", " ", "IS", " ", "in", " ", "the", " ", "system">>)
    \o Fill(41) \o Str(<<"email">>) \o Fill(20)
    \o Str(<<"What", " ", "message">>) \o Fill(19) \o Str(<<"enter">>)
    \o Fill(6) \o Str(<<"email", "?">>)

EmailValidatedMessage ==
    Fill(23) \o Str(<<"validation", " ", "error">>) \o Fill(12)
    \o Str(<<"what">>) \o Fill(17)
    \o Str(<<"email", " ", "IS", " ", "in", " ", "the", " ", "system">>)
    \o Fill(74) \o Str(<<"click">>) \o Fill(2) \o Str(<<"Forgot">>) \o Fill(1)
    \o Str(<<"Username">>) \o Fill(3) \o Str(<<"Enter">>) \o Fill(11)
    \o Str(<<"email">>) \o Fill(36) \o Str(<<"username">>) \o Fill(9)
    \o Str(<<"email">>) \o Fill(3) \o Str(<<"Have", " ", "you">>) \o Fill(15)
    \o Str(<<"?">>)

UsernameSentMessage ==
    Fill(19) \o Str(<<"Check", " ", "your", " ", "email">>) \o Fill(31)
    \o Str(<<"username">>) \o Fill(1) \o Str(<<"email">>) \o Fill(32)
    \o Str(<<"username">>) \o Fill(9) \o Str(<<"email">>) \o Fill(24)
    \o Str(<<"password", " ", "reset">>) \o Fill(4)
    \o Str(<<"Did", " ", "you", " ", "find">>) \o Fill(5) \o Str(<<"email">>)
    \o Fill(11) \o Str(<<"username", "?">>)

ReadyForResetMessage ==
    Fill(25) \o Str(<<"Go", " ", "to">>) \o Fill(6) \o Str(<<"Forgot">>)
    \o Fill(1) \o Str(<<"Password">>) \o Fill(11) \o Str(<<"enter">>)
    \o Fill(5) \o Str(<<"username">>) \o Fill(24) \o Str(<<"email">>)
    \o Fill(20) \o Str(<<"password", " ", "reset">>) \o Fill(1)
    \o Str(<<"link">>) \o Fill(9) \o Str(<<"email">>) \o Fill(18)
    \o Str(<<"did">>) \o Fill(8) \o Str(<<"?">>)

ResetInProgressMessage ==
    Fill(22) \o Str(<<"Check", " ", "your", " ", "email">>) \o Fill(27)
    \o Str(<<"password", " ", "reset">>) \o Fill(1) \o Str(<<"email">>)
    \o Fill(13) \o Str(<<"Click">>) \o Fill(5) \o Str(<<"reset">>) \o Fill(1)
    \o Str(<<"link">>) \o Fill(9) \o Str(<<"email">>) \o Fill(18)
    \o Str(<<"password">>) \o Fill(122) \o Str(<<"logon">>) \o Fill(3)
    \o Str(<<"?">>) \o Fill(36) \o Str(<<"login">>) \o Fill(20)
    \o Str(<<"username">>) \o Fill(9) \o Str(<<"password">>) \o Fill(20)
    \o Str(<<"reset">>) \o Fill(6) \o Str(<<"password", "?">>)

RestartMessage ==
    Fill(37) \o Str(<<"different", " ", "email">>) \o Fill(25)
    \o Str(<<"email">>) \o Fill(83) \o Str(<<"different", " ", "email">>)
    \o Fill(3) \o Str(<<"Go", " ", "to">>) \o Fill(48) \o Str(<<"logon">>)
    \o Fill(3) \o Str(<<"?">>) \o Fill(36) \o Str(<<"login">>) \o Fill(30)
    \o Str(<<"new", " ", "user">>) \o Fill(17) \o Str(<<"RIGHT", " ", "SIDE">>)
    \o Fill(11) \o Str(<<"different", " ", "email">>) \o Fill(11)
    \o Str(<<"What">>) \o Fill(7) \o Str(<<"email">>) \o Fill(21)
    \o Str(<<"have">>) \o Fill(31) \o Str(<<"?">>)

CompleteMessage ==
    Fill(68) \o Str(<<"Username">>) \o Fill(18) \o Str(<<"email">>)
    \o Fill(4) \o Str(<<"Password">>) \o Fill(12) \o Str(<<"password">>)
    \o Fill(102) \o Str(<<"logon">>) \o Fill(3) \o Str(<<"?">>) \o Fill(36)
    \o Str(<<"login">>) \o Fill(54) \o Str(<<"?">>)

DefaultMessage ==
    Fill(39) \o Str(<<"login">>) \o Fill(9) \o Str(<<"What">>) \o Fill(35)
    \o Str(<<"?">>) \o Fill(47) \o Str(<<"login">>) \o Fill(18)
    \o Str(<<"contact", ":">>) \o Fill(2) \o Str(<<"<telephone>">>)
    \o Fill(54)

getResponseForState(state) ==
    CASE state = "initial" -> InitialMessage
      [] state = "has_login_error" -> LoginErrorMessage
      [] state = "checking_email_validation" -> CheckingEmailMessage
      [] state = "email_validated_ready_for_username" -> EmailValidatedMessage
      [] state = "username_email_sent" -> UsernameSentMessage
      [] state = "ready_for_password_reset" -> ReadyForResetMessage
      [] state = "password_reset_in_progress" -> ResetInProgressMessage
      [] state = "restart_needed" -> RestartMessage
      [] state = "process_complete" -> CompleteMessage
      [] OTHER -> DefaultMessage

\* The message of the handler's catch-all error response.
ErrorMessage ==
    Fill(74) \o Str(<<"login">>) \o Fill(15) \o Str(<<"contact", ":">>) \o Fill(2)
    \o Str(<<"<telephone>">>) \o Fill(122)

(***************************************************************************)
(* chat route: generateAIExpectedOutcomes, getIntelligentFallbackOptions   *)
(***************************************************************************)
BoolLeaf(b) == [t |-> "bool", v |-> b]

ArrayLeaf(items) == [t |-> "array", v |-> items]

\* An object of the kind the route spreads into its response: the properties
\* showInput, options and message, each present or Undefined.
NoOutcomes == [showInput |-> Undefined, options |-> Undefined, message |-> Undefined]

ShowInput(b) == [NoOutcomes EXCEPT !.showInput = BoolLeaf(b)]

Options(items) == [NoOutcomes EXCEPT !.options = ArrayLeaf(items)]

Option(id, text) == [id |-> id, text |-> StrLeaf(text), action |-> StrLeaf(text)]

\* String.prototype.includes on the name of a state.
StateIncludes(state, word) ==
    CASE word = "email" ->
            state \in {"checking_email_validation",
                       "email_validated_ready_for_username",
                       "username_email_sent"}
      [] word = "validation" -> state \in {"checking_email_validation"}
      [] OTHER -> FALSE

DifferentEmailOption ==
    Option("different_email", Str(<<"Try", " ", "different", " ", "email", "?">>))

getIntelligentFallbackOptions(state, aiResponse) ==
    LET lowerResponse == toLowerCase(aiResponse)
    IN  IF /\ \/ Has(lowerResponse, <<"what", " ", "happens">>)
              \/ Has(lowerResponse, <<"what", " ", "message">>)
           /\ StateIncludes(state, "validation") \/ StateIncludes(state, "email")
        THEN Options(<<Option("success", Str(<<"Got", " ", "validation", " ", "error", "!">>)),
                       Option("fail", Str(<<"Shows", " ", "contact", " ", "form">>)),
                       Option("different", Str(<<"Try", " ", "different", " ", "email", "?">>))>>)
        ELSE IF \/ Has(lowerResponse, <<"did", " ", "you", " ", "find">>)
                \/ Has(lowerResponse, <<"check", " ", "your", " ", "email">>)
        THEN Options(<<Option("found", Str(<<"Found", " ", "it", "!">>)),
                       Option("not_yet", Str(<<"Nothing", " ", "yet">>)),
                       Option("spam", Str(<<"Not", " ", "in", " ", "spam", " ", "either">>))>>)
        ELSE IF \/ Has(lowerResponse, <<"have", " ", "you">>)
                \/ Has(lowerResponse, <<"did", " ", "you">>)
        THEN Options(<<Option("yes", Str(<<"Yes">>)),
                       Option("no", Str(<<"Not", " ", "yet">>)),
                       Option("tried", Str(<<"Tried", " ", "but", " ", "didn't", " ", "work">>))>>)
        ELSE ShowInput(TRUE)

\* generateAIExpectedOutcomes up to its await: what it returns without asking
\* the model for options, or NullLeaf when the options are asked for.
outcomesWithoutCall(aiResponse) ==
    IF Has(aiResponse, <<"<telephone>">>) \/ Has(aiResponse, <<"contact", ":">>)
    THEN ShowInput(FALSE)
    ELSE LET lowerResponse == toLowerCase(aiResponse)
             isAskingQuestion == Has(aiResponse, <<"?">>)
             isGivingInstructions ==
                 \/ Has(lowerResponse, <<"go", " ", "to">>)
                 \/ Has(lowerResponse, <<"check", " ", "your">>)
                 \/ Has(lowerResponse, <<"click">>)
                 \/ Has(lowerResponse, <<"enter">>)
         IN  IF ~isAskingQuestion /\ ~isGivingInstructions
             THEN ShowInput(TRUE)
             ELSE NullLeaf

\* .map(opt => ({...opt, text: opt.text.substring(0, 50), action: the same}))
RECURSIVE CutOptions(_)
CutOptions(options) ==
    IF options = << >> THEN << >>
    ELSE <<[Head(options) EXCEPT
                !.text = StrLeaf(Slice(Head(options).text.v, 50)),
                !.action = StrLeaf(Slice(Head(options).text.v, 50))]>>
         \o CutOptions(Tail(options))

\* generateAIExpectedOutcomes from the await on: outcomeResponse is what the
\* options completion gave (a thrown error, null, text that holds no JSON, or
\* text that holds the JSON document doc).
outcomesFromCompletion(outcomeResponse, aiResponse, currentState) ==
    IF outcomeResponse.kind = "scalar" THEN outcomeResponse.value
    ELSE IF outcomeResponse.kind # "json"
    THEN getIntelligentFallbackOptions(currentState, aiResponse)
    ELSE LET parsedOutcomes == outcomeResponse.doc
         IN  IF parsedOutcomes.options.t # "array" THEN parsedOutcomes
             ELSE LET first3 == SubSeq(parsedOutcomes.options.v, 1,
                                       Min(3, Len(parsedOutcomes.options.v)))
                  IN  IF \E i \in 1..Len(first3) : first3[i].text.t # "str"
                      \* opt.text.substring throws a TypeError
                      THEN getIntelligentFallbackOptions(currentState, aiResponse)
                      ELSE LET options == CutOptions(first3)
                               hasEmailOption ==
                                   \E i \in 1..Len(options) :
                                       Has(toLowerCase(options[i].text.v), <<"email">>)
                           IN  [parsedOutcomes EXCEPT !.options =
                                   ArrayLeaf(IF /\ ~hasEmailOption
                                                /\ \/ StateIncludes(currentState, "email")
                                                   \/ StateIncludes(currentState, "validation")
                                             THEN Append(options, DifferentEmailOption)
                                             ELSE options)]

\* The properties that ...value adds to an object literal: those of an
\* object, none for a number or a boolean.
IsScalar(value) == "t" \in DOMAIN value

SpreadOf(value) == IF IsScalar(value) THEN NoOutcomes ELSE value

(***************************************************************************)
(* chat route, second variant: generateAIExpectedOutcomes                  *)
(***************************************************************************)
NeedHelpOption == Option("need_help", Str(<<"I", " ", "need", " ", "help">>))

getIntelligentFallbackOptions2(context, aiResponse) ==
    LET lowerResponse == toLowerCase(aiResponse)
    IN  IF /\ \/ Has(lowerResponse, <<"what", " ", "happens">>)
              \/ Has(lowerResponse, <<"what", " ", "message">>)
           /\ \/ StateIncludes(context.state, "validation")
              \/ StateIncludes(context.state, "email")
        THEN Options(<<Option("success", Str(<<"Got", " ", "validation", " ", "error", "!">>)),
                       Option("fail", Str(<<"Shows", " ", "contact", " ", "form">>)),
                       Option("different", Str(<<"Try", " ", "different", " ", "email", "?">>))>>)
        ELSE IF \/ Has(lowerResponse, <<"did", " ", "you", " ", "find">>)
                \/ Has(lowerResponse, <<"check", " ", "your", " ", "email">>)
        THEN Options(<<Option("found", Str(<<"Found", " ", "it", "!">>)),
                       Option("not_yet", Str(<<"Nothing", " ", "yet">>)),
                       Option("spam", Str(<<"Not", " ", "in", " ", "spam", " ", "either">>))>>)
        ELSE IF \/ Has(lowerResponse, <<"have", " ", "you">>)
                \/ Has(lowerResponse, <<"did", " ", "you">>)
        THEN LET options == <<Option("yes", Str(<<"Yes">>)),
                              Option("no", Str(<<"Not", " ", "yet">>)),
                              Option("tried", Str(<<"Tried", " ", "but", " ", "didn't", " ", "work">>))>>
             IN  Options(IF context.userSentiment = "frustrated"
                         THEN Append(options, Option("help", Str(<<"I", " ", "need", " ", "help">>)))
                         ELSE options)
        ELSE ShowInput(TRUE)

\* generateAIExpectedOutcomes of the second variant from its await on.
outcomesFromCompletion2(outcomeResponse, aiResponse, currentContext) ==
    IF outcomeResponse.kind = "scalar" THEN outcomeResponse.value
    ELSE IF outcomeResponse.kind # "json"
    THEN getIntelligentFallbackOptions2(currentContext, aiResponse)
    ELSE LET parsedOutcomes == outcomeResponse.doc
         IN  IF parsedOutcomes.options.t # "array" THEN parsedOutcomes
             ELSE LET first4 == SubSeq(parsedOutcomes.options.v, 1,
                                       Min(4, Len(parsedOutcomes.options.v)))
                  IN  IF \E i \in 1..Len(first4) : first4[i].text.t # "str"
                      \* opt.text.substring throws a TypeError
                      THEN getIntelligentFallbackOptions2(currentContext, aiResponse)
                      ELSE LET options == CutOptions(first4)
                               hasEmailOption ==
                                   \E i \in 1..Len(options) :
                                       Has(toLowerCase(options[i].text.v), <<"email">>)
                               withEmail ==
                                   IF /\ ~hasEmailOption
                                      /\ \/ StateIncludes(currentContext.state, "email")
                                         \/ StateIncludes(currentContext.state, "validation")
                                      /\ currentContext.stuckIndicators > 1
                                   THEN Append(options, DifferentEmailOption)
                                   ELSE options
                               withHelp ==
                                   IF /\ currentContext.userSentiment = "frustrated"
                                      /\ ~\E i \in 1..Len(withEmail) :
                                            Has(toLowerCase(withEmail[i].text.v), <<"help">>)
                                   THEN Append(withEmail, NeedHelpOption)
                                   ELSE withEmail
                           IN  [parsedOutcomes EXCEPT !.options = ArrayLeaf(withHelp)]

\* generateAIExpectedOutcomes, either variant: outcomeResponse is what the
\* options completion gives when the function asks for it.
generateAIExpectedOutcomes(aiResponse, currentState, outcomeResponse) ==
    LET direct == outcomesWithoutCall(aiResponse)
    IN  IF direct # NullLeaf THEN direct
        ELSE outcomesFromCompletion(outcomeResponse, aiResponse, currentState)

generateAIExpectedOutcomes2(aiResponse, currentContext, outcomeResponse) ==
    LET direct == outcomesWithoutCall(aiResponse)
    IN  IF direct # NullLeaf THEN direct
        ELSE outcomesFromCompletion2(outcomeResponse, aiResponse, currentContext)

(***************************************************************************)
(* chat route: POST                                                        *)
(***************************************************************************)
IsUrlStart(s) == s \in {"https://ce.uhcc.hawaii.edu/portal/logon.do", "https://a.edu/"}

\* Characters of the last class of urlPattern.
IsUrlTail(s) == s \in {"p", "q", "?", ".", "/", "=", "&"}

RECURSIVE TakeUrlTail(_)
TakeUrlTail(str) ==
    IF str = << >> \/ ~IsUrlTail(Head(str).s) THEN << >>
    ELSE <<Head(str)>> \o TakeUrlTail(Tail(str))

\* message.match(urlPattern): url[0], or NullLeaf when nothing matches.
RECURSIVE urlMatch(_)
urlMatch(message) ==
    IF message = << >> THEN NullLeaf
    ELSE IF IsUrlStart(Head(message).s)
    THEN StrLeaf(<<Run(Head(message).s, 1)>> \o TakeUrlTail(Tail(message)))
    ELSE urlMatch(Tail(message))

\* What POST tells the model about the page the user linked to.
\* Mutant of pageContextOf: nothing is said of a page that gave no content.
pageContextOf_SilentOnFailure(pageData) ==
    IF pageData.content.t = "str" /\ pageData.content.v # << >>
    THEN W("I can see the login page. ")
    ELSE << >>

pageContextOf(pageData) ==
    IF pageData.content.t = "str" /\ pageData.content.v # << >>
    THEN LET content == toLowerCase(pageData.content.v)
         IN  IF /\ Has(content, <<"validation", " ", "error">>)
                /\ Has(content, <<"invalid", " ", "email">>)
             THEN W("I can see you're getting the validation error about invalid email/password. ")
             ELSE IF Has(content, <<"existing", " ", "student", " ", "record">>)
             THEN W("Perfect! I can see the page is telling you there's an existing student record - that's exactly what we want! ")
             ELSE IF Has(content, <<"forgot">>) /\ Has(content, <<"username">>)
             THEN W("Good, you're on the forgot username page. ")
             ELSE IF Has(content, <<"forgot">>) /\ Has(content, <<"password">>)
             THEN W("Great, you're on the forgot password page. ")
             ELSE IF Has(content, <<"reset">>) /\ Has(content, <<"password">>)
             THEN W("I see you're on the password reset page. ")
             ELSE IF Has(content, <<"login">>) \/ Has(content, <<"logon">>)
             THEN W("I can see the login page. ")
             ELSE IF Has(content, <<"contact", " ", "information">>)
             THEN W("I see the contact information form - this means your email isn't in the system yet. ")
             ELSE << >>
    ELSE W("I couldn't access that page, but I can still help! ")

\* The line of the system prompt that carries the page context.
pageContextSection(pageContext) ==
    IF pageContext # << >> THEN Cat(W("Page context: "), pageContext) ELSE << >>

\* { message: finalResponse, ...expectedOutcomes }
responseBody(finalText, expectedOutcomes) ==
    LET spread == SpreadOf(expectedOutcomes)
    IN  [message |-> IF spread.message # Undefined
                     THEN spread.message
                     ELSE StrLeaf(finalText),
         showInput |-> spread.showInput,
         options |-> spread.options]

errorBody == responseBody(ErrorMessage, ShowInput(FALSE))

\* aiResponse || baseResponse
OrElse(aiResponse, baseResponse) ==
    IF aiResponse.kind = "text" /\ aiResponse.text # << >>
    THEN aiResponse.text
    ELSE baseResponse

(***************************************************************************)
(* Inputs of the chat model: requests and completions                      *)
(***************************************************************************)
MsgBlank == Rep(" ", 2)

MsgCantLogIn == Str(<<"I", " ", "can't", " ", "log", " ", "in">>)

MsgStartOver == Str(<<"Start", " ", "over">>)

MsgQuoted == Str(<<"It", " ", "says", " ", "\"", "invalid", " ", "email", "\"">>)

MsgWithUrl == Str(<<"I", " ", "see", " ">>) \o UrlShort

ChatMessages == {MsgBlank, MsgQuoted, MsgWithUrl}

HistoryOne ==
    <<Message("user", MsgCantLogIn),
      Message("assistant", getResponseForState("initial"))>>

HistoryRestart ==
    HistoryOne \o <<Message("user", MsgStartOver),
                    Message("assistant", getResponseForState("has_login_error"))>>

Histories == {<< >>, HistoryOne}

\* getUserState of each history, tabulated.
UserStateOf == [h \in Histories |-> getUserState(h)]

CompletionThrows == [kind |-> "throws"]

CompletionNull == [kind |-> "null"]

Completion(text) == [kind |-> "text", text |-> text]

\* A reply that neither asks nor instructs, and one that asks.
ReplyPlain == Str(<<"Got", " ", "it", ".">>)

ReplyQuestion == Str(<<"Did", " ", "you", " ", "find", " ", "the", " ", "email", "?">>)

Completions ==
    {CompletionThrows, CompletionNull, Completion(<< >>),
     Completion(ReplyPlain), Completion(ReplyQuestion)}

CompletionJson(doc) == [kind |-> "json", doc |-> doc]

LongOption == Option("option1", Str(<<"Nothing", " ", "yet">>) \o Rep("!", 50) \o Str(<<"email">>))

OptionCompletions ==
    {CompletionThrows, CompletionNull,
     CompletionJson(Options(<<Option("option1", Str(<<"Yes">>)),
                              Option("option2", Str(<<"Wrong", " ", "email">>)),
                              Option("option3", Str(<<"Not", " ", "yet">>)),
                              Option("option4", Str(<<"Nothing", " ", "yet">>))>>)),
     CompletionJson(Options(<<LongOption>>)),
     CompletionJson(Options(<<[id |-> "option1", text |-> Undefined,
                               action |-> Undefined]>>)),
     CompletionJson([Options(<<Option("option1", Str(<<"Yes">>))>>)
                        EXCEPT !.message = StrLeaf(ReplyPlain)])}

\* What the store and the network do while POST scrapes the linked page.
ChatEnvs ==
    {[getOk |-> TRUE, delOk |-> TRUE, setOk |-> TRUE, http |-> PageQuoted],
     [getOk |-> TRUE, delOk |-> TRUE, setOk |-> TRUE, http |-> HttpThrows]}

SavedLists == {<< >>, HistoryOne}

(***************************************************************************)
(* State                                                                   *)
(***************************************************************************)
VARIABLES
    redis,      \* the key-value store
    now,        \* the clock, in seconds
    pending,    \* the request that is waiting at one of its awaits, if any
    call,       \* the operation that returned last, with what it returned
    client,     \* the page: the chat it shows and the request it waits for
    db          \* the relational store: the events and the daily summaries

vars == <<redis, now, pending, call, client, db>>

ChatIds == {"chat1"}

ConversationKeys == {conversationKey(id) : id \in ChatIds}

Keys == CacheKeys \cup ConversationKeys

NoPending == [kind |-> "none"]

\* No row.
NoRow == [present |-> FALSE]

\* The tables as the migration creates them: no event, no summary.
NewDb == [analytics |-> << >>, analyticsSummary |-> << >>, zone |-> "UTC"]

\* The page as it is loaded: an empty chat, no request under way.  prior is
\* the history the chat had when the request under way was sent, sent the
\* request's message, and turns counts the messages sent.
NewClient ==
    [messages |-> << >>, waiting |-> FALSE, prior |-> << >>, sent |-> << >>,
     turns |-> 0]

\* The clock advances in steps of half a TTL, MaxTicks times at most.
TickStep == CACHE_TTL \div 2

MaxTicks == 2

Expired(entry, t) == entry # NoEntry /\ entry.exp # NoTTL /\ entry.exp <= t

Tick ==
    /\ now < MaxTicks * TickStep
    /\ now' = now + TickStep
    /\ redis' = [k \in Keys |-> IF Expired(redis[k], now') THEN NoEntry ELSE redis[k]]
    /\ call' = [op |-> "tick"]
    /\ UNCHANGED <<pending, client, db>>

(***************************************************************************)
(* The scraper's operations                                                *)
(***************************************************************************)
ScrapeUrl ==
    \E url \in Urls, env \in Envs :
        \E r \in {scrapeUrl(url, redis, env, now)} :
            /\ pending = NoPending
            \* a command that is not issued has no outcome to choose
            /\ r.dels = 0 => env.delOk
            /\ r.sets = 0 => env.setOk
            /\ r.httpGets = 0 => env.http = HttpThrows
            /\ redis' = r.store
            /\ call' = [op |-> "scrapeUrl", url |-> url, ret |-> r.ret,
                        hit |-> r.hit, httpGets |-> r.httpGets, sets |-> r.sets,
                        dels |-> r.dels, getOk |-> env.getOk, setOk |-> env.setOk]
            /\ UNCHANGED <<now, pending, client, db>>

GetCachedContent ==
    \E url \in Urls, getOk \in BOOLEAN, delOk \in BOOLEAN :
        \E r \in {getCachedContent(url, redis, [getOk |-> getOk, delOk |-> delOk])} :
            /\ pending = NoPending
            /\ redis' = r.store
            /\ call' = [op |-> "getCachedContent", url |-> url, ret |-> r.ret,
                        dels |-> r.dels, getOk |-> getOk, delOk |-> delOk,
                        before |-> redis[getCacheKey(url)]]
            /\ UNCHANGED <<now, pending, client, db>>

CacheContent ==
    \E url \in Urls, page \in HttpPages, setOk \in BOOLEAN :
        \E r \in {cacheContent(url, Extracted[url][page], redis, [setOk |-> setOk], now)} :
            /\ pending = NoPending
            /\ redis' = r.store
            /\ call' = [op |-> "cacheContent", url |-> url, ret |-> r.content,
                        sets |-> r.sets, setOk |-> setOk,
                        before |-> redis[getCacheKey(url)]]
            /\ UNCHANGED <<now, pending, client, db>>

InitCache ==
    /\ \E k \in CacheKeys :
         \E e \in InitialEntries(k) :
            redis = [j \in Keys |-> IF j = k THEN e ELSE NoEntry]
    /\ now = 0
    /\ pending = NoPending
    /\ call = [op |-> "init"]
    /\ client = NewClient
    /\ db = NewDb

NextCache == ScrapeUrl \/ GetCachedContent \/ CacheContent \/ Tick

SpecCache == InitCache /\ [][NextCache]_vars

(***************************************************************************)
(* The chat route's operations.  POST runs from await to await: pending.pc *)
(* is the await it is waiting at ("completion": getGroqResponse,           *)
(* "outcomes": the completion inside generateAIExpectedOutcomes, "set" and *)
(* "expire": the two commands of saveConversation).  Requests are handled  *)
(* one at a time; time may pass at every await.                            *)
(***************************************************************************)
Running == [op |-> "running"]

NewPending(kind, chatId) ==
    [kind |-> kind, pc |-> "set", chatId |-> chatId,
     message |-> << >>, messages |-> << >>, currentState |-> "",
     baseResponse |-> << >>, pageContext |-> << >>, scraped |-> FALSE,
     pageData |-> NullLeaf,
     aiResponse |-> "", finalResponse |-> << >>, expectedOutcomes |-> NoOutcomes,
     updatedMessages |-> << >>, before |-> NoEntry]

\* What the caller of saveConversation gets, saved being "ok", "setThrows" or
\* "expireThrows": POST answers, a direct caller sees the return or the throw.
Returned(p, saved) ==
    IF p.kind = "post"
    THEN [op |-> "POST",
          status |-> IF saved \in {"ok", "notReached"} /\ p.aiResponse # "throws"
                     THEN 200 ELSE 500,
          body |-> IF saved \in {"ok", "notReached"} /\ p.aiResponse # "throws"
                   THEN responseBody(p.finalResponse, p.expectedOutcomes)
                   ELSE errorBody,
          chatId |-> p.chatId, message |-> p.message, messages |-> p.messages,
          currentState |-> p.currentState, pageContext |-> p.pageContext,
          scraped |-> p.scraped, pageData |-> p.pageData,
          aiResponse |-> p.aiResponse,
          finalResponse |-> p.finalResponse,
          expectedOutcomes |-> p.expectedOutcomes,
          updatedMessages |-> p.updatedMessages,
          saved |-> saved, before |-> p.before]
    ELSE [op |-> "saveConversation", chatId |-> p.chatId,
          updatedMessages |-> p.updatedMessages,
          threw |-> saved # "ok", saved |-> saved, before |-> p.before]

\* [...messages, the user's message, the assistant's reply]
UpdatedMessages(p, finalText) ==
    p.messages \o <<Message("user", p.message), Message("assistant", finalText)>>

CompletionKind(aiResponse) ==
    IF aiResponse.kind = "text" /\ aiResponse.text = << >> THEN "empty"
    ELSE aiResponse.kind

\* POST from the request to the await on getGroqResponse.
PostRequest(message, messages, chatId, env) ==
        /\ pending = NoPending
        \* a page that is not asked for has no outcome to choose
        /\ urlMatch(message) = NullLeaf => env.http = HttpThrows
        /\ IF Trim(message) = << >>
           THEN /\ call' = Returned([NewPending("post", chatId) EXCEPT
                                        !.message = message,
                                        !.messages = messages,
                                        !.currentState = "initial",
                                        !.finalResponse = getResponseForState("initial"),
                                        !.expectedOutcomes = ShowInput(TRUE)],
                                    "notReached")
                /\ UNCHANGED <<redis, pending>>
           ELSE LET url == urlMatch(message)
                    currentState == IF messages \in DOMAIN UserStateOf
                                    THEN UserStateOf[messages]
                                    ELSE getUserState(messages)
                IN  \E r \in {IF url = NullLeaf
                              THEN [ret |-> NullLeaf, store |-> redis]
                              ELSE scrapeUrl(url.v, redis, env, now)} :
                        /\ redis' = r.store
                        /\ pending' = [NewPending("post", chatId) EXCEPT
                                          !.pc = "completion",
                                          !.message = message,
                                          !.messages = messages,
                                          !.currentState = currentState,
                                          !.baseResponse = getResponseForState(currentState),
                                          !.scraped = url # NullLeaf,
                                          !.pageData =
                                              IF url = NullLeaf THEN NullLeaf
                                              ELSE [content |-> r.ret.content,
                                                    error |-> r.ret.error],
                                          !.pageContext = IF url = NullLeaf THEN << >>
                                                          ELSE pageContextOf(r.ret)]
                        /\ call' = Running
        /\ UNCHANGED now

\* A request from any caller.
PostReceive ==
    \E message \in ChatMessages, messages \in Histories, chatId \in ChatIds,
       env \in ChatEnvs :
        /\ PostRequest(message, messages, chatId, env)
        /\ UNCHANGED <<client, db>>

\* getGroqResponse returns or throws; POST runs on to its next await.
PostCompletion ==
    \E aiResponse \in Completions :
        /\ pending.kind = "post"
        /\ pending.pc = "completion"
        /\ IF aiResponse = CompletionThrows
           THEN /\ call' = Returned([pending EXCEPT !.aiResponse = "throws"],
                                    "notReached")
                /\ pending' = NoPending
           ELSE LET finalText == OrElse(aiResponse, pending.baseResponse)
                    direct == outcomesWithoutCall(finalText)
                IN  /\ pending' = [pending EXCEPT
                                      !.pc = IF direct = NullLeaf THEN "outcomes" ELSE "set",
                                      !.aiResponse = CompletionKind(aiResponse),
                                      !.finalResponse = finalText,
                                      !.expectedOutcomes =
                                          IF direct = NullLeaf THEN NoOutcomes ELSE direct,
                                      !.updatedMessages = UpdatedMessages(pending, finalText)]
                    /\ UNCHANGED call
        /\ UNCHANGED <<redis, now, client, db>>

\* The completion inside generateAIExpectedOutcomes returns or throws.
PostOutcomes ==
    \E outcomeResponse \in OptionCompletions :
        /\ pending.kind = "post"
        /\ pending.pc = "outcomes"
        /\ pending' = [pending EXCEPT
                          !.pc = "set",
                          !.expectedOutcomes =
                              outcomesFromCompletion(outcomeResponse,
                                                     pending.finalResponse,
                                                     pending.currentState)]
        /\ UNCHANGED <<redis, now, call, client, db>>

\* saveConversation called by another caller than POST.
SaveConversation ==
    \E id \in ChatIds, messages \in SavedLists :
        /\ pending = NoPending
        /\ pending' = [NewPending("save", id) EXCEPT !.updatedMessages = messages]
        /\ call' = Running
        /\ UNCHANGED <<redis, now, client, db>>

\* saveConversation: await redis.set
SaveConversationSet ==
    \E setOk \in BOOLEAN :
        /\ pending.kind \in {"post", "save"}
        /\ pending.pc = "set"
        /\ IF setOk
           THEN /\ redis' = saveConversationSet(pending.chatId,
                                                pending.updatedMessages, redis)
                /\ pending' = [pending EXCEPT
                                  !.pc = "expire",
                                  !.before = IF pending.kind = "save"
                                             THEN redis[conversationKey(pending.chatId)]
                                             ELSE NoEntry]
                /\ UNCHANGED call
           ELSE /\ call' = Returned(pending, "setThrows")
                /\ pending' = NoPending
                /\ UNCHANGED redis
        /\ UNCHANGED <<now, client, db>>

\* saveConversation: await redis.expire, and the return to the caller
SaveConversationExpire ==
    \E expireOk \in BOOLEAN :
        /\ pending.kind \in {"post", "save"}
        /\ pending.pc = "expire"
        /\ redis' = IF expireOk
                    THEN saveConversationExpire(pending.chatId, redis, now)
                    ELSE redis
        /\ call' = Returned(pending, IF expireOk THEN "ok" ELSE "expireThrows")
        /\ pending' = NoPending
        /\ UNCHANGED <<now, client, db>>

GetConversation ==
    \E id \in ChatIds, getOk \in BOOLEAN :
        /\ pending = NoPending
        /\ call' = [op |-> "getConversation", chatId |-> id,
                    ret |-> getConversation(id, redis, getOk)]
        /\ UNCHANGED <<redis, now, pending, client, db>>

InitChat ==
    /\ redis = [k \in Keys |-> NoEntry]
    /\ now = 0
    /\ pending = NoPending
    /\ call = [op |-> "init"]
    /\ client = NewClient
    /\ db = NewDb

NextChat ==
    \/ PostReceive
    \/ PostCompletion
    \/ PostOutcomes
    \/ SaveConversation
    \/ SaveConversationSet
    \/ SaveConversationExpire
    \/ GetConversation
    \/ Tick

SpecChat == InitChat /\ [][NextChat]_vars

----------------------------------------------------------------------------
\* The page (page.tsx): a session of chat turns on one conversation id.

MaxTurns == 2

SessionMessages == {MsgCantLogIn, MsgQuoted, MsgStartOver}

\* Mutant of HandleSend: the request carries the chat as it was before the
\* user's message joined it.
HandleSend_PriorHistory ==
    \E messageToSend \in SessionMessages, chatId \in ChatIds, env \in ChatEnvs :
        /\ ~client.waiting
        /\ client.turns < MaxTurns
        /\ Trim(messageToSend) # << >>
        /\ PostRequest(messageToSend, client.messages, chatId, env)
        /\ client' = [client EXCEPT
                          !.messages = client.messages
                                       \o <<Message("user", messageToSend)>>,
                          !.waiting = TRUE,
                          !.prior = client.messages,
                          !.sent = messageToSend,
                          !.turns = client.turns + 1]
        /\ UNCHANGED db

\* handleSend up to its await on fetch: the user's message joins the chat and
\* the request carries the chat with that message already in it.
HandleSend ==
    \E messageToSend \in SessionMessages, chatId \in ChatIds, env \in ChatEnvs :
        /\ ~client.waiting
        /\ client.turns < MaxTurns
        /\ Trim(messageToSend) # << >>
        /\ LET userMessage == Message("user", messageToSend)
               updatedMessages == client.messages \o <<userMessage>>
           IN  /\ PostRequest(messageToSend, updatedMessages, chatId, env)
               /\ client' = [client EXCEPT
                                 !.messages = updatedMessages,
                                 !.waiting = TRUE,
                                 !.prior = client.messages,
                                 !.sent = messageToSend,
                                 !.turns = client.turns + 1]
        /\ UNCHANGED db

\* handleSend from the response on: a response that is ok adds the assistant's
\* message, with the options of the response; any other leaves the chat with
\* the user's message and shows an error.
HandleResponse ==
    /\ client.waiting
    /\ pending = NoPending
    /\ call.op = "POST"
    /\ LET data == call.body
           assistantMessage == [role |-> "assistant", content |-> data.message,
                                options |-> data.options,
                                showInput |-> data.showInput]
       IN  client' = [client EXCEPT
                         !.messages = IF call.status = 200
                                      THEN client.messages \o <<assistantMessage>>
                                      ELSE client.messages,
                         !.waiting = FALSE]
    /\ call' = [op |-> "handleSend", ok |-> call.status = 200]
    /\ UNCHANGED <<redis, now, pending, db>>

InitSession == InitChat

NextSession ==
    \/ HandleSend
    \/ PostCompletion
    \/ PostOutcomes
    \/ SaveConversationSet
    \/ SaveConversationExpire
    \/ HandleResponse

SpecSession == InitSession /\ [][NextSession]_vars

(***************************************************************************)
(* Properties of the scraper and its cache, checked under SpecCache        *)
(***************************************************************************)
IsString(leaf) == leaf.t = "str"

EnvOk == [getOk |-> TRUE, delOk |-> TRUE, setOk |-> TRUE, http |-> HttpThrows]

\* C3: scrapeUrl never throws and always returns a record whose url, title,
\* headings.h1, headings.h2, metaDescription and content are strings and whose
\* error is null or a string, whatever the cache lookup, the HTTP GET and the
\* cache write did.
C3_ScrapeUrlReturnsRecord ==
    call.op = "scrapeUrl" =>
        /\ IsString(call.ret.url)
        /\ IsString(call.ret.title)
        /\ call.ret.headings.present
        /\ IsString(call.ret.headings.h1)
        /\ IsString(call.ret.headings.h2)
        /\ IsString(call.ret.metaDescription)
        /\ IsString(call.ret.content)
        /\ call.ret.error.t \in {"null", "str"}

\* A scrape during which the store was unreachable and the fetch threw.
C3_Witness ==
    /\ call.op = "scrapeUrl"
    /\ ~call.getOk
    /\ call.httpGets = 1
    /\ call.ret.error = StrLeaf(W("Failed to scrape URL"))

\* The stored value is corrupt: it does not parse, or a required field of the
\* parsed record is not a string.
Corrupt(entry) ==
    /\ entry # NoEntry
    /\ \/ entry.value.kind = "garbage"
       \/ /\ entry.value.kind = "json"
          /\ LET d == JSON_parse(entry.value.text)
             IN  \/ ~IsString(d.url)
                 \/ ~IsString(d.title)
                 \/ ~d.headings.present
                 \/ ~IsString(d.headings.h1)
                 \/ ~IsString(d.headings.h2)
                 \/ ~IsString(d.metaDescription)
                 \/ ~IsString(d.content)

\* C4: getCachedContent returns null for a corrupt entry and, the store being
\* reachable, the entry is gone from the store after the get.
C4_CorruptEntryPurged ==
    (/\ call.op = "getCachedContent"
     /\ call.getOk /\ call.delOk
     /\ Corrupt(call.before))
        => /\ call.ret = NullLeaf
           /\ redis[getCacheKey(call.url)] = NoEntry

\* C5: after cacheContent(url, page) with a page within the payload cap (and
\* both commands reaching the store), getCachedContent(url) returns a record
\* with the content, title and headings of the page.
C5_CacheRoundTrip ==
    (/\ call.op = "cacheContent"
     /\ call.setOk
     /\ SerializedLength(call.ret) <= MAX_CACHE_SIZE)
        => \A delOk \in BOOLEAN :
              LET got == getCachedContent(call.url, redis,
                                          [getOk |-> TRUE, delOk |-> delOk]).ret
              IN  /\ got # NullLeaf
                  /\ got.content = call.ret.content
                  /\ got.title = call.ret.title
                  /\ got.headings = call.ret.headings

\* A page that serializes to exactly the cap was put, with text that JSON
\* escapes in the store at the same time or not.
C5_Witness ==
    /\ call.op = "cacheContent"
    /\ call.setOk
    /\ SerializedLength(call.ret) = MAX_CACHE_SIZE

\* C6 as claimed: a put above the cap stores nothing and the get that follows
\* is a miss, whatever the key held before.
C6_OversizeThenMiss ==
    (/\ call.op = "cacheContent"
     /\ SerializedLength(call.ret) > MAX_CACHE_SIZE)
        => /\ redis[getCacheKey(call.url)] = call.before
           /\ getCachedContent(call.url, redis, EnvOk).ret = NullLeaf

\* C6 as amended: a put above the cap issues no set and leaves the key as it
\* was, so the get that follows is a miss when the key held no entry, and
\* otherwise finds what the key held before.
C6_OversizeLeavesKey ==
    (/\ call.op = "cacheContent"
     /\ SerializedLength(call.ret) > MAX_CACHE_SIZE)
        => /\ call.sets = 0
           /\ redis[getCacheKey(call.url)] = call.before
           /\ call.before = NoEntry
                => getCachedContent(call.url, redis, EnvOk).ret = NullLeaf
           /\ getCachedContent(call.url, redis, EnvOk).ret # call.ret

\* An oversize put on a key that held a valid entry.
C6_Witness ==
    /\ call.op = "cacheContent"
    /\ SerializedLength(call.ret) > MAX_CACHE_SIZE
    /\ call.before # NoEntry
    /\ getCachedContent(call.url, redis, EnvOk).ret # NullLeaf

\* C7: when getCachedContent finds a valid entry for the URL, scrapeUrl
\* returns that entry, performs no HTTP GET and writes nothing to the store.
C7_HitSkipsNetwork ==
    [][\A url \in Urls :
         (/\ call'.op = "scrapeUrl"
          /\ call'.url = url
          /\ call'.getOk
          /\ getCachedContent(url, redis, EnvOk).ret # NullLeaf)
            => /\ call'.ret = getCachedContent(url, redis, EnvOk).ret
               /\ call'.httpGets = 0
               /\ call'.sets = 0
               /\ call'.dels = 0
               /\ redis' = redis]_vars

C7_Witness ==
    /\ call.op = "scrapeUrl"
    /\ call.hit
    /\ call.httpGets = 0
    /\ redis[getCacheKey(call.url)] # NoEntry

\* C8: after a miss and a successful fetch, with the record within the cap and
\* the store reachable, the record is in the cache when scrapeUrl returns, and
\* a second scrapeUrl of the URL returns it without an HTTP GET.
C8_MissPopulatesCache ==
    (/\ call.op = "scrapeUrl"
     /\ call.httpGets = 1
     /\ call.ret.error = NullLeaf
     /\ call.setOk
     /\ SerializedLength(call.ret) <= MAX_CACHE_SIZE)
        => /\ redis[getCacheKey(call.url)] =
                [value |-> JsonValue(JSON_stringify(call.ret)),
                 exp |-> now + CACHE_TTL]
           /\ \A http \in HttpOutcomes, setOk \in BOOLEAN :
                 LET again == scrapeUrl(call.url, redis,
                                        [getOk |-> TRUE, delOk |-> TRUE,
                                         setOk |-> setOk, http |-> http], now)
                 IN  /\ again.hit
                     /\ again.httpGets = 0
                     /\ again.ret = call.ret

C8_Witness ==
    /\ call.op = "scrapeUrl"
    /\ call.httpGets = 1
    /\ call.sets = 1
    /\ call.setOk
    /\ call.ret.error = NullLeaf
    /\ SerializedLength(call.ret) <= MAX_CACHE_SIZE

\* C9: a cache entry changes only by being deleted or by being written whole
\* by cacheContent with an expiry CACHE_TTL ahead; a hit leaves the store as
\* it is; so no entry outlives the 7 days that follow the write.
C9_EntryWrittenWholeWithTTL ==
    /\ \A k \in CacheKeys :
          redis[k] # NoEntry => redis[k].exp # NoTTL /\ redis[k].exp <= now + CACHE_TTL
    /\ [][/\ \A k \in CacheKeys :
                redis'[k] # redis[k] =>
                    \/ redis'[k] = NoEntry
                    \/ /\ call'.op \in {"scrapeUrl", "cacheContent"}
                       /\ call'.sets = 1
                       /\ k = getCacheKey(call'.url)
                       /\ redis'[k] = [value |-> JsonValue(JSON_stringify(call'.ret)),
                                       exp |-> now + CACHE_TTL]
          /\ \A k \in CacheKeys :
                redis'[k] # NoEntry =>
                    redis'[k].exp # NoTTL /\ redis'[k].exp <= now' + CACHE_TTL
          /\ (call'.op = "scrapeUrl" /\ call'.hit) => redis' = redis]_vars

\* A hit on an entry that is half way through its TTL: the expiry stays.
C9_Witness ==
    /\ call.op = "scrapeUrl"
    /\ call.hit
    /\ redis[getCacheKey(call.url)].exp < now + CACHE_TTL

(***************************************************************************)
(* Properties of the chat route and the conversation store, checked under  *)
(* SpecChat                                                                *)
(***************************************************************************)
\* C1: when the primary completion throws, or returns null or the empty
\* string, POST still answers 200 with the canned message of the classified
\* state, never with the error response (the options completion not having
\* supplied a message of its own, and the conversation having been saved).
C1_CompletionFailureFallsBack ==
    (/\ call.op = "POST"
     /\ call.aiResponse \in {"throws", "null", "empty"}
     /\ call.saved \in {"ok", "notReached"}
     /\ call.expectedOutcomes.message = Undefined)
        => /\ call.status = 200
           /\ call.body.message = StrLeaf(getResponseForState(call.currentState))

\* C2: when saveConversation fails, at its set or at its expire, POST still
\* answers 200 with the reply it composed.
C2_SaveFailureSwallowed ==
    (/\ call.op = "POST"
     /\ call.saved \in {"setThrows", "expireThrows"})
        => /\ call.status = 200
           /\ call.body = responseBody(call.finalResponse, call.expectedOutcomes)

\* C10: when saveConversation succeeds, the key conversation:<id> holds exactly
\* the list it was given, whatever it held before, and expires 7 days from
\* now and not a second sooner; getConversation returns that list.
C10_SaveReplacesAndResetsTTL ==
    (/\ call.op \in {"saveConversation", "POST"}
     /\ call.saved = "ok")
        => /\ redis[conversationKey(call.chatId)] =
                [value |-> JsonValue(StringifyMessages(call.updatedMessages)),
                 exp |-> now + CONVERSATION_TTL]
           /\ getConversation(call.chatId, redis, TRUE) =
                [messages |-> call.updatedMessages]
           /\ ~Expired(redis[conversationKey(call.chatId)], now + CONVERSATION_TTL - 1)

\* A shorter list was saved over a longer one whose expiry was nearer.
C10_Witness ==
    /\ call.op = "saveConversation"
    /\ call.saved = "ok"
    /\ call.before # NoEntry
    /\ call.before.exp # NoTTL
    /\ call.before.exp < now + CONVERSATION_TTL
    /\ Len(call.before.value.text) > Len(call.updatedMessages)
    /\ Len(call.updatedMessages) > 0

----------------------------------------------------------------------------
\* The classifiers applied to a history.

MaxHistory == 2

NoContent(role) == [Message(role, << >>) EXCEPT !.content = Undefined]

UserStartOver == Message("user", MsgStartOver)
UserNotWorking ==
    Message("user", Str(<<"It", " ", "is", " ", "not", " ", "working">>))
UserLoggedIn ==
    Message("user", Str(<<"I", " ", "successfully", " ", "logged", " ", "in">>))
UserGotUsername ==
    Message("user", Str(<<"I", " ", "got", " ", "my", " ", "username">>))
UserResetLink ==
    Message("user", Str(<<"Got", " ", "the", " ", "password", " ", "reset", " ", "link">>))
UserCantLogIn == Message("user", MsgCantLogIn)
UserHello == Message("user", Str(<<"Hello">>))
UserEmail ==
    Message("user", Str(<<"It", " ", "is", " ", "Jo@Hawaii.edu", " ", "or", " ",
                          "jo@hawaii.edu", " ", "or", " ", "kai@hawaii.edu">>))
UserStuck ==
    Message("user", Str(<<"Nothing", " ", "here", ",", " ", "still", " ", "not",
                          " ", "there", ",", " ", "help">>))
UserThanks == Message("user", Str(<<"Thanks">>))
AssistantRightSide ==
    Message("assistant", Str(<<"Go", " ", "to", " ", "the", " ", "RIGHT", " ", "SIDE">>))
AssistantSuccess ==
    Message("assistant", Str(<<"Success", "!", " ", "you", " ", "are", " ",
                               "logged", " ", "in">>))
AssistantCheckEmail ==
    Message("assistant", Str(<<"Check", " ", "your", " ", "email", " ", "for",
                               " ", "the", " ", "username">>))
AssistantValidation ==
    Message("assistant", Str(<<"a", " ", "validation", " ", "error", " ", "is",
                               " ", "good">>))

ClassifyMessages ==
    {UserStartOver, UserNotWorking, UserLoggedIn, UserGotUsername, UserResetLink,
     UserCantLogIn, UserHello, UserEmail, UserStuck, UserThanks, NoContent("user"),
     AssistantRightSide, AssistantSuccess, AssistantCheckEmail, AssistantValidation}

ShortHistories ==
    UNION {[1..n -> ClassifyMessages] : n \in 0..MaxHistory}

\* A message of success, then turns that put it out of the last three.
OverrideHistories ==
    {head \o tail :
        head \in {<<UserLoggedIn>>, <<UserLoggedIn, UserHello>>},
        tail \in [1..3 -> {UserStartOver, UserNotWorking, UserHello,
                           AssistantSuccess}]}

ClassifyHistories == ShortHistories \cup OverrideHistories

\* getUserState(messages)
GetUserState ==
    /\ call' = [op |-> "getUserState", messages |-> client.messages,
                state |-> getUserState(client.messages),
                again |-> call.op = "getUserState"]
    /\ UNCHANGED <<redis, now, pending, client, db>>

\* analyzeUserState(messages)
AnalyzeUserState_SharedContext ==
    /\ call' = [op |-> "analyzeUserState", messages |-> client.messages,
                context |-> analyzeFrom(IF call.op = "analyzeUserState"
                                        THEN call.context ELSE NewContext,
                                        client.messages),
                again |-> call.op = "analyzeUserState"]
    /\ UNCHANGED <<redis, now, pending, client, db>>

AnalyzeUserState ==
    /\ call' = [op |-> "analyzeUserState", messages |-> client.messages,
                context |-> analyzeUserState(client.messages),
                again |-> call.op = "analyzeUserState"]
    /\ UNCHANGED <<redis, now, pending, client, db>>

InitClassify ==
    /\ redis = [k \in Keys |-> NoEntry]
    /\ now = 0
    /\ pending = NoPending
    /\ call = [op |-> "init"]
    /\ \E messages \in ClassifyHistories :
          client = [NewClient EXCEPT !.messages = messages]
    /\ db = NewDb

NextClassify ==
    \/ GetUserState
    \/ AnalyzeUserState

SpecClassify == InitClassify /\ [][NextClassify]_vars

----------------------------------------------------------------------------
\* generateAIExpectedOutcomes applied to a reply, a context and what the options
\* completion gives.

UserHelp == Message("user", Str(<<"help">>))

OutcomeContexts ==
    {analyzeUserState(h) :
        h \in {<< >>,
               <<AssistantCheckEmail>>,
               <<UserNotWorking, UserHelp, AssistantRightSide>>,
               <<UserStuck, AssistantRightSide>>,
               <<UserStuck>>}}

ReplyWhy == Str(<<"Why", "?">>)

ReplyHaveYou == Str(<<"Have", " ", "you", " ", "tried", " ", "it", "?">>)

OutcomeReplies ==
    {ReplyPlain, ReplyQuestion, ReplyWhy, ReplyHaveYou, LoginErrorMessage,
     ErrorMessage}

PlainOptions ==
    <<Option("option1", Str(<<"Yes">>)),
      Option("option2", Str(<<"Not", " ", "yet">>)),
      Option("option3", Str(<<"Nothing", " ", "yet">>)),
      Option("option4", Str(<<"Found", " ", "it", "!">>)),
      Option("option5", Str(<<"Tried", " ", "but", " ", "didn't", " ", "work">>))>>

\* The text is a JSON value that is not an object, as 42 is.
CompletionScalar == [kind |-> "scalar", value |-> [t |-> "num", v |-> 42]]

OutcomeResponses ==
    OptionCompletions
    \cup {Completion(<< >>), Completion(ReplyPlain), CompletionScalar,
          CompletionJson(NoOutcomes)}
    \cup {CompletionJson(Options(SubSeq(PlainOptions, 1, n))) : n \in 0..5}

NewOutcomeInputs(aiResponse, currentContext, outcomeResponse) ==
    [kind |-> "outcomes", aiResponse |-> aiResponse,
     currentContext |-> currentContext, outcomeResponse |-> outcomeResponse]

OutcomeCall(variant, ret) ==
    [op |-> "generateAIExpectedOutcomes", variant |-> variant,
     aiResponse |-> pending.aiResponse,
     currentContext |-> pending.currentContext,
     asked |-> outcomesWithoutCall(pending.aiResponse) = NullLeaf,
     outcomeResponse |-> pending.outcomeResponse,
     ret |-> ret,
     body |-> responseBody(pending.aiResponse, ret)]

\* generateAIExpectedOutcomes of the first variant, and the response POST
\* builds from what it returns.
GenerateOutcomes ==
    /\ pending.kind = "outcomes"
    /\ call' = OutcomeCall(1, generateAIExpectedOutcomes(pending.aiResponse,
                                                        pending.currentContext.state,
                                                        pending.outcomeResponse))
    /\ UNCHANGED <<redis, now, pending, client, db>>

\* generateAIExpectedOutcomes of the second variant.
GenerateOutcomes2 ==
    /\ pending.kind = "outcomes"
    /\ call' = OutcomeCall(2, generateAIExpectedOutcomes2(pending.aiResponse,
                                                         pending.currentContext,
                                                         pending.outcomeResponse))
    /\ UNCHANGED <<redis, now, pending, client, db>>

InitOutcomes ==
    /\ redis = [k \in Keys |-> NoEntry]
    /\ now = 0
    /\ call = [op |-> "init"]
    /\ client = NewClient
    /\ db = NewDb
    /\ \E aiResponse \in OutcomeReplies, currentContext \in OutcomeContexts,
          outcomeResponse \in OutcomeResponses :
          pending = NewOutcomeInputs(aiResponse, currentContext, outcomeResponse)

NextOutcomes ==
    \/ GenerateOutcomes
    \/ GenerateOutcomes2

SpecOutcomes == InitOutcomes /\ [][NextOutcomes]_vars

----------------------------------------------------------------------------
\* The analytics route: POST records an event and updates the summary of the
\* day.  Instants are hours since an epoch at 00:00 UTC.

zoneOffset(zone) ==
    CASE zone = "Pacific/Honolulu" -> -10
      [] zone = "UTC" -> 0

\* startOfDay in a zone: the number of the calendar day the instant falls on.
startOfDay(t, zone) == (t + zoneOffset(zone)) \div 24

\* 23:00 and 01:00 in Honolulu, both in the morning of one UTC day, and 01:00
\* of the next UTC day.
Instants == {33, 35, 49}

EventTypes ==
    {"session_start", "message_sent", "message_received",
     "quick_action_clicked", "session_completed"}

QuickActionTypes == {"I forgot my password", "I forgot my username"}

\* The bodies posted: a click carries the text of its quick action, or none.
AnalyticsEvents ==
    {[sessionId |-> "s1", eventType |-> e, quickActionType |-> ""] :
        e \in EventTypes}
    \cup {[sessionId |-> "s1", eventType |-> "quick_action_clicked",
           quickActionType |-> k] : k \in QuickActionTypes}

RequestIds == {1, 2}

IdleRequest == [pc |-> "idle"]

InFlight(r) == r.pc \notin {"idle", "done"}

NoUpdates ==
    [totalSessions |-> 0, uniqueSessions |-> 0, totalMessages |-> 0,
     completedSessions |-> 0, quickActionClicks |-> Undefined,
     avgMessagesPerSession |-> Undefined]

NewSummary ==
    [present |-> TRUE, totalSessions |-> 0, totalMessages |-> 0,
     avgMessagesPerSession |-> <<0, 1>>, uniqueSessions |-> 0,
     completedSessions |-> 0, quickActionClicks |-> << >>]

\* prisma.analyticsSummary.findUnique({ where: { date } })
findUnique(table, date) ==
    IF date \in DOMAIN table THEN table[date] ELSE NoRow

\* The row with one more column, or one column replaced.
withRow(table, date, row) ==
    [d \in DOMAIN table \cup {date} |-> IF d = date THEN row ELSE table[d]]

\* updatesFor with the map of clicks built anew instead of from the clicks of
\* the summary.
updatesFor_FreshClicks(event, summary) ==
    IF event.eventType = "session_start"
    THEN [NoUpdates EXCEPT !.totalSessions = 1, !.uniqueSessions = 1]
    ELSE IF event.eventType \in {"message_sent", "message_received"}
    THEN [NoUpdates EXCEPT !.totalMessages = 1]
    ELSE IF event.eventType = "quick_action_clicked" /\ event.quickActionType # ""
    THEN [NoUpdates EXCEPT !.quickActionClicks =
             [a \in {event.quickActionType} |-> 1]]
    ELSE IF event.eventType = "session_completed"
    THEN [NoUpdates EXCEPT !.completedSessions = 1]
    ELSE NoUpdates

\* The updates object built for the event from the summary read before.
updatesFor(event, summary) ==
    IF event.eventType = "session_start"
    THEN [NoUpdates EXCEPT !.totalSessions = 1, !.uniqueSessions = 1]
    ELSE IF event.eventType \in {"message_sent", "message_received"}
    THEN [NoUpdates EXCEPT !.totalMessages = 1]
    ELSE IF event.eventType = "quick_action_clicked" /\ event.quickActionType # ""
    THEN LET currentClicks == summary.quickActionClicks
             k == event.quickActionType
         IN  [NoUpdates EXCEPT !.quickActionClicks =
                 [a \in DOMAIN currentClicks \cup {k} |->
                     IF a = k
                     THEN (IF k \in DOMAIN currentClicks THEN currentClicks[k] ELSE 0) + 1
                     ELSE currentClicks[a]]]
    ELSE IF event.eventType = "session_completed"
    THEN [NoUpdates EXCEPT !.completedSessions = 1]
    ELSE NoUpdates

\* prisma.analyticsSummary.update({ where: { date }, data: updates })
applyUpdates(row, updates) ==
    [row EXCEPT
        !.totalSessions = @ + updates.totalSessions,
        !.uniqueSessions = @ + updates.uniqueSessions,
        !.totalMessages = @ + updates.totalMessages,
        !.completedSessions = @ + updates.completedSessions,
        !.quickActionClicks = IF updates.quickActionClicks = Undefined THEN @
                              ELSE updates.quickActionClicks,
        !.avgMessagesPerSession = IF updates.avgMessagesPerSession = Undefined THEN @
                                  ELSE updates.avgMessagesPerSession]

Request(i) == pending.requests[i]

SetRequest(i, r) == pending' = [pending EXCEPT !.requests[i] = r]

AnalyticsResponse(i, r, status) ==
    [op |-> "analytics", id |-> i, status |-> status, event |-> r.event,
     t |-> r.t, today |-> r.today]

\* After the summary is known: the updates, and the await that follows.
WithSummary(r, summary) ==
    LET updates == updatesFor(r.event, summary)
        pc == IF updates.totalMessages > 0 \/ updates.totalSessions > 0
              THEN "average"
              ELSE IF updates # NoUpdates THEN "update"
              ELSE "done"
    IN  [r EXCEPT !.summary = summary,
                  !.updates = updates,
                  !.pc = pc,
                  !.status = IF pc = "done" THEN 201 ELSE 0]

\* POST up to the return of prisma.analytics.create: the instant is read, the
\* day is computed and the event is recorded.
\* The request also notes, for the properties, the row of the day as it was
\* when the request came in (before) and whether another request was being
\* handled at any time of its own handling (alone).
AnalyticsReceive(i) ==
    \E event \in AnalyticsEvents :
        /\ pending.kind = "analytics"
        /\ Request(i).pc = "idle"
        /\ LET today == startOfDay(now, db.zone)
               r == [pc |-> "find", event |-> event, t |-> now,
                     today |-> today, summary |-> NoRow,
                     updates |-> NoUpdates, status |-> 0, error |-> "",
                     before |-> findUnique(db.analyticsSummary, today),
                     alone |-> \A j \in RequestIds : ~InFlight(Request(j))]
           IN  /\ db' = [db EXCEPT !.analytics =
                            Append(@, [sessionId |-> event.sessionId,
                                       eventType |-> event.eventType,
                                       quickActionType |-> event.quickActionType,
                                       timestamp |-> now, today |-> today])]
               /\ pending' = [pending EXCEPT !.requests =
                     [j \in RequestIds |->
                         IF j = i THEN r
                         ELSE IF InFlight(@[j]) THEN [@[j] EXCEPT !.alone = FALSE]
                         ELSE @[j]]]
        /\ call' = Running
        /\ UNCHANGED <<redis, now, client>>

\* await prisma.analyticsSummary.findUnique
AnalyticsFind(i) ==
    /\ pending.kind = "analytics"
    /\ Request(i).pc = "find"
    /\ LET r == Request(i)
           summary == findUnique(db.analyticsSummary, r.today)
       IN  IF summary = NoRow
           THEN /\ SetRequest(i, [r EXCEPT !.pc = "create"])
                /\ UNCHANGED call
           ELSE /\ SetRequest(i, WithSummary(r, summary))
                /\ call' = IF WithSummary(r, summary).pc = "done"
                           THEN AnalyticsResponse(i, r, 201) ELSE call
    /\ UNCHANGED <<redis, now, client, db>>

\* await prisma.analyticsSummary.create: the unique index on date rejects a
\* second row for the day, and the error ends the request with status 500.
AnalyticsCreate(i) ==
    /\ pending.kind = "analytics"
    /\ Request(i).pc = "create"
    /\ LET r == Request(i)
       IN  IF r.today \in DOMAIN db.analyticsSummary
           THEN /\ SetRequest(i, [r EXCEPT !.pc = "done", !.status = 500,
                                            !.error = "unique"])
                /\ call' = AnalyticsResponse(i, r, 500)
                /\ UNCHANGED db
           ELSE /\ db' = [db EXCEPT !.analyticsSummary =
                             withRow(@, r.today, NewSummary)]
                /\ SetRequest(i, WithSummary(r, NewSummary))
                /\ call' = IF WithSummary(r, NewSummary).pc = "done"
                           THEN AnalyticsResponse(i, r, 201) ELSE call
    /\ UNCHANGED <<redis, now, client>>

\* The second findUnique, for the average of messages per session.
AnalyticsAverage(i) ==
    /\ pending.kind = "analytics"
    /\ Request(i).pc = "average"
    /\ LET r == Request(i)
           updatedSummary == findUnique(db.analyticsSummary, r.today)
       IN  SetRequest(i, [r EXCEPT
               !.pc = "update",
               !.updates.avgMessagesPerSession =
                   IF updatedSummary # NoRow /\ updatedSummary.totalSessions > 0
                   THEN <<updatedSummary.totalMessages, updatedSummary.totalSessions>>
                   ELSE Undefined])
    /\ UNCHANGED <<redis, now, call, client, db>>

\* await prisma.analyticsSummary.update, and the response
AnalyticsUpdate(i) ==
    /\ pending.kind = "analytics"
    /\ Request(i).pc = "update"
    /\ LET r == Request(i)
       IN  /\ db' = [db EXCEPT !.analyticsSummary =
                        withRow(@, r.today, applyUpdates(@[r.today], r.updates))]
           /\ SetRequest(i, [r EXCEPT !.pc = "done", !.status = 201])
           /\ call' = AnalyticsResponse(i, r, 201)
    /\ UNCHANGED <<redis, now, client>>

\* A call of the store throws after the event has been recorded (the database
\* is unreachable): the catch of POST answers 500.
AnalyticsThrow(i) ==
    /\ pending.kind = "analytics"
    /\ Request(i).pc \in {"find", "create", "average", "update"}
    /\ LET r == Request(i)
       IN  /\ SetRequest(i, [r EXCEPT !.pc = "done", !.status = 500,
                                       !.error = "down"])
           /\ call' = AnalyticsResponse(i, r, 500)
    /\ UNCHANGED <<redis, now, client, db>>

\* Time passes.
AnalyticsClock ==
    /\ pending.kind = "analytics"
    /\ \E t \in Instants : t > now /\ now' = t
    /\ call' = [op |-> "tick"]
    /\ UNCHANGED <<redis, pending, client, db>>

\* The route as deployed: its days are those of Honolulu.  The other variant
\* takes the days of the zone of its server.
Zones == {"Pacific/Honolulu", "UTC"}

\* The database after a click without quick action has been handled at 09:00
\* UTC: the event is recorded and the row of its day is there, all zero.
DbWithRow(zone) ==
    [analytics |-> <<[sessionId |-> "s0", eventType |-> "quick_action_clicked",
                      quickActionType |-> "", timestamp |-> 33,
                      today |-> startOfDay(33, zone)]>>,
     analyticsSummary |-> withRow(<< >>, startOfDay(33, zone), NewSummary),
     zone |-> zone]

InitAnalytics ==
    /\ redis = [k \in Keys |-> NoEntry]
    /\ now = 33
    /\ pending = [kind |-> "analytics", requests |-> [i \in RequestIds |-> IdleRequest]]
    /\ call = [op |-> "init"]
    /\ client = NewClient
    /\ \E zone \in Zones : db \in {[NewDb EXCEPT !.zone = zone], DbWithRow(zone)}

NextAnalytics ==
    \/ \E i \in RequestIds : AnalyticsReceive(i)
    \/ \E i \in RequestIds : AnalyticsFind(i)
    \/ \E i \in RequestIds : AnalyticsCreate(i)
    \/ \E i \in RequestIds : AnalyticsAverage(i)
    \/ \E i \in RequestIds : AnalyticsUpdate(i)
    \/ \E i \in RequestIds : AnalyticsThrow(i)
    \/ AnalyticsClock

SpecAnalytics == InitAnalytics /\ [][NextAnalytics]_vars

----------------------------------------------------------------------------
\* A session in which every request succeeds, turn by turn: handleSend, POST
\* with the store in reach and the options completion giving nothing, and the
\* response shown by the page.  pending keeps, for every turn, the state POST
\* classified and whether the reply was the canned one.

MaxRestartTurns == 4

RestartTurnMessages == {MsgStartOver, MsgCantLogIn}

RestartCompletions == {CompletionNull, Completion(ReplyPlain)}

Turn ==
    \E messageToSend \in RestartTurnMessages, aiResponse \in RestartCompletions,
       chatId \in ChatIds :
        /\ pending.kind = "session"
        /\ client.turns < MaxRestartTurns
        /\ urlMatch(messageToSend) = NullLeaf
        /\ LET userMessage == Message("user", messageToSend)
               updatedMessages == client.messages \o <<userMessage>>
               currentState == getUserState(updatedMessages)
               finalText == OrElse(aiResponse, getResponseForState(currentState))
               direct == outcomesWithoutCall(finalText)
               expectedOutcomes ==
                   IF direct = NullLeaf
                   THEN outcomesFromCompletion(CompletionNull, finalText,
                                               currentState)
                   ELSE direct
               data == responseBody(finalText, expectedOutcomes)
               saved == updatedMessages
                            \o <<Message("user", messageToSend),
                                 Message("assistant", finalText)>>
               assistantMessage == [role |-> "assistant", content |-> data.message,
                                    options |-> data.options,
                                    showInput |-> data.showInput]
           IN  /\ redis' = saveConversationExpire(
                               chatId, saveConversationSet(chatId, saved, redis), now)
               /\ client' = [client EXCEPT
                                 !.messages = updatedMessages \o <<assistantMessage>>,
                                 !.prior = client.messages,
                                 !.sent = messageToSend,
                                 !.turns = client.turns + 1]
               /\ pending' = [pending EXCEPT
                                  !.states = Append(@, currentState),
                                  !.canned = Append(@, aiResponse = CompletionNull)]
               /\ call' = [op |-> "turn", currentState |-> currentState,
                           finalResponse |-> finalText]
        /\ UNCHANGED <<now, db>>

InitRestart ==
    /\ redis = [k \in Keys |-> NoEntry]
    /\ now = 0
    /\ pending = [kind |-> "session", states |-> << >>, canned |-> << >>]
    /\ call = [op |-> "init"]
    /\ client = NewClient
    /\ db = NewDb

NextRestart == Turn

SpecRestart == InitRestart /\ [][NextRestart]_vars

----------------------------------------------------------------------------
\* The middleware: rate limiting ahead of the routes.  In this part the store
\* holds the counters of the limiters, one for a client and a window of 60
\* seconds, and the clock counts seconds.

\* String.prototype.startsWith
startsWith(text, prefix) ==
    /\ Len(text) >= Len(prefix)
    /\ \A j \in 1..Len(prefix) :
          /\ text[j].s = prefix[j].s
          /\ IF j < Len(prefix) THEN text[j].n = prefix[j].n
             ELSE text[j].n >= prefix[j].n

\* The two limiters.  Neither is given a prefix, so both count under the
\* keys of one client.
rateLimit == [tokens |-> 30, window |-> 60]

apiRateLimit == [tokens |-> 20, window |-> 60]

skipPaths ==
    <<Str(<<"/", "favicon.ico">>),
      Str(<<"/", "robots.txt">>),
      Str(<<"/", "sitemap.xml">>),
      Str(<<"/", "_next", "/", "static">>),
      Str(<<"/", "_next", "/", "image">>),
      Str(<<"/", "images">>)>>

shouldSkip(pathname) ==
    \E n \in 1..Len(skipPaths) : startsWith(pathname, skipPaths[n])

isApiRoute(pathname) == startsWith(pathname, Str(<<"/", "api", "/">>))

\* The client of a request.  A header is the list of its comma-separated
\* parts, or NullLeaf when the request does not carry it.
ipOf(headers) ==
    IF headers.xForwardedFor # NullLeaf THEN headers.xForwardedFor.v[1]
    ELSE IF headers.xRealIp # NullLeaf THEN headers.xRealIp.v[1]
    ELSE IF headers.cfConnectingIp # NullLeaf THEN headers.cfConnectingIp.v[1]
    ELSE "127.0.0.1"

\* The requests a client has made that count at time t: those of the window
\* of t, and of the window before the part that the sliding window still
\* covers.
usedTokens(store, ip, t, window) ==
    LET currentWindow == t \div window
        inPrevious == (store[<<ip, currentWindow - 1>>] * (window - (t % window)))
                          \div window
    IN  store[<<ip, currentWindow>>] + inPrevious

\* Ratelimit.limit(ip) of a sliding-window limiter: the request is counted
\* unless the client has used its tokens.
limit(limiter, store, ip, t) ==
    LET currentWindow == t \div limiter.window
        used == usedTokens(store, ip, t, limiter.window)
        reset == (currentWindow + 1) * limiter.window
    IN  IF used >= limiter.tokens
        THEN [success |-> FALSE, limit |-> limiter.tokens, remaining |-> 0,
              reset |-> reset, store |-> store]
        ELSE [success |-> TRUE, limit |-> limiter.tokens,
              remaining |-> limiter.tokens - (used + 1), reset |-> reset,
              store |-> [store EXCEPT ![<<ip, currentWindow>>] = @ + 1]]

\* The headers the middleware sets: absent, or a number.
Header(n) == [t |-> "num", v |-> n]

NoHeaders == [limit |-> Undefined, remaining |-> Undefined, reset |-> Undefined,
              retryAfter |-> Undefined]

\* NextResponse.next(): the request goes on to its route.
NextResponseNext(store) ==
    [forwarded |-> TRUE, status |-> 0, body |-> NullLeaf, headers |-> NoHeaders,
     limited |-> FALSE, threw |-> FALSE, store |-> store]

\* middleware with one limiter for every path.
middleware_OneLimiter(request, store, t, up) ==
    IF shouldSkip(request.pathname) THEN NextResponseNext(store)
    ELSE IF ~up THEN [NextResponseNext(store) EXCEPT !.limited = TRUE, !.threw = TRUE]
    ELSE LET ip == ipOf(request.headers)
             r == limit(rateLimit, store, ip, t)
             headers == [limit |-> Header(r.limit),
                         remaining |-> Header(r.remaining),
                         reset |-> Header(r.reset),
                         retryAfter |-> IF r.success THEN Undefined
                                        ELSE Header(r.reset - t)]
         IN  IF r.success
             THEN [NextResponseNext(r.store) EXCEPT
                      !.limited = TRUE, !.headers = headers]
             ELSE [forwarded |-> FALSE, status |-> 429,
                   body |-> [error |-> "Rate limit exceeded", reset |-> r.reset,
                             timeRemaining |-> r.reset - t,
                             retryAfter |-> r.reset - t],
                   headers |-> headers, limited |-> TRUE, threw |-> FALSE,
                   store |-> r.store]

\* middleware that answers 429 when the limiter throws.
middleware_FailsClosed(request, store, t, up) ==
    IF shouldSkip(request.pathname) THEN NextResponseNext(store)
    ELSE IF ~up
    THEN [forwarded |-> FALSE, status |-> 429,
          body |-> [error |-> "Rate limit exceeded", reset |-> 0,
                    timeRemaining |-> 0, retryAfter |-> 0],
          headers |-> NoHeaders, limited |-> TRUE, threw |-> TRUE,
          store |-> store]
    ELSE LET ip == ipOf(request.headers)
             currentRateLimit == IF isApiRoute(request.pathname)
                                 THEN apiRateLimit ELSE rateLimit
             r == limit(currentRateLimit, store, ip, t)
             headers == [limit |-> Header(r.limit),
                         remaining |-> Header(r.remaining),
                         reset |-> Header(r.reset),
                         retryAfter |-> IF r.success THEN Undefined
                                        ELSE Header(r.reset - t)]
         IN  IF r.success
             THEN [NextResponseNext(r.store) EXCEPT
                      !.limited = TRUE, !.headers = headers]
             ELSE [forwarded |-> FALSE, status |-> 429,
                   body |-> [error |-> "Rate limit exceeded", reset |-> r.reset,
                             timeRemaining |-> r.reset - t,
                             retryAfter |-> r.reset - t],
                   headers |-> headers, limited |-> TRUE, threw |-> FALSE,
                   store |-> r.store]

\* middleware(request): what it answers and the store it leaves.  up tells
\* whether the store can be reached; when it cannot, limit throws.
middleware(request, store, t, up) ==
    IF shouldSkip(request.pathname) THEN NextResponseNext(store)
    ELSE IF ~up THEN [NextResponseNext(store) EXCEPT !.limited = TRUE, !.threw = TRUE]
    ELSE LET ip == ipOf(request.headers)
             currentRateLimit == IF isApiRoute(request.pathname)
                                 THEN apiRateLimit ELSE rateLimit
             r == limit(currentRateLimit, store, ip, t)
             headers == [limit |-> Header(r.limit),
                         remaining |-> Header(r.remaining),
                         reset |-> Header(r.reset),
                         retryAfter |-> IF r.success THEN Undefined
                                        ELSE Header(r.reset - t)]
         IN  IF r.success
             THEN [NextResponseNext(r.store) EXCEPT
                      !.limited = TRUE, !.headers = headers]
             ELSE [forwarded |-> FALSE, status |-> 429,
                   body |-> [error |-> "Rate limit exceeded", reset |-> r.reset,
                             timeRemaining |-> r.reset - t,
                             retryAfter |-> r.reset - t],
                   headers |-> headers, limited |-> TRUE, threw |-> FALSE,
                   store |-> r.store]

\* Inputs of the middleware: clients, paths and the store at the start.
Ips == {"1.1.1.1", "2.2.2.2", "127.0.0.1"}

RequestHeaders ==
    {[xForwardedFor |-> ArrayLeaf(<<"1.1.1.1", "10.0.0.1">>),
      xRealIp |-> ArrayLeaf(<<"2.2.2.2">>),
      cfConnectingIp |-> NullLeaf],
     [xForwardedFor |-> NullLeaf, xRealIp |-> ArrayLeaf(<<"2.2.2.2">>),
      cfConnectingIp |-> NullLeaf],
     [xForwardedFor |-> NullLeaf, xRealIp |-> NullLeaf,
      cfConnectingIp |-> ArrayLeaf(<<"1.1.1.1">>)],
     [xForwardedFor |-> NullLeaf, xRealIp |-> NullLeaf,
      cfConnectingIp |-> NullLeaf]}

Pathnames ==
    {Str(<<"/">>),
     Str(<<"/", "api", "/", "chat">>),
     Str(<<"/", "api", "/", "analytics">>),
     Str(<<"/", "favicon.ico">>),
     Str(<<"/", "_next", "/", "static", "/", "chunk.js">>),
     Str(<<"/", "images", "/", "logo.png">>)}

MaxRequests == 3

MaxHalfMinutes == 2

\* The requests a client may have made in the first window before the model
\* starts.
EarlierRequests == {0, 19, 20, 29, 30}

Windows == -1..(MaxHalfMinutes \div 2)

\* One request through the middleware.
Middleware ==
    \E headers \in RequestHeaders, pathname \in Pathnames, up \in BOOLEAN :
        /\ pending.kind = "middleware"
        /\ pending.handled < MaxRequests
        /\ \E response \in {middleware([headers |-> headers, pathname |-> pathname],
                                        redis, now, up)} :
           LET ip == ipOf(headers)
           IN  /\ redis' = response.store
               /\ call' = [op |-> "middleware", pathname |-> pathname,
                           ip |-> ip, up |-> up, t |-> now,
                           used |-> usedTokens(redis, ip, now, 60),
                           counted |-> {k \in DOMAIN redis :
                                           response.store[k] # redis[k]},
                           forwarded |-> response.forwarded,
                           status |-> response.status,
                           body |-> response.body,
                           headers |-> response.headers,
                           limited |-> response.limited,
                           threw |-> response.threw]
        /\ pending' = [pending EXCEPT !.handled = @ + 1]
        /\ UNCHANGED <<now, client, db>>

\* Half a minute passes.
MiddlewareClock ==
    /\ pending.kind = "middleware"
    /\ now < MaxHalfMinutes * 30
    /\ now' = now + 30
    /\ UNCHANGED <<redis, pending, call, client, db>>

InitMiddleware ==
    /\ \E n \in EarlierRequests :
          redis = [k \in Ips \X Windows |-> IF k = <<"1.1.1.1", 0>> THEN n ELSE 0]
    /\ now = 0
    /\ pending = [kind |-> "middleware", handled |-> 0]
    /\ call = [op |-> "init"]
    /\ client = NewClient
    /\ db = NewDb

NextMiddleware ==
    \/ Middleware
    \/ MiddlewareClock

SpecMiddleware == InitMiddleware /\ [][NextMiddleware]_vars

----------------------------------------------------------------------------
\* Properties of a session of chat turns

\* The list the key of the conversation holds, or NullLeaf.
StoredList(id) == getConversation(id, redis, TRUE)

RoleAndContent(messages) ==
    [i \in 1..Len(messages) |->
        [role |-> messages[i].role, content |-> messages[i].content]] \o << >>

IsPrefix(s, t) == Len(s) <= Len(t) /\ SubSeq(t, 1, Len(s)) = s

\* C11: during a session of the page on one conversation id the stored list
\* only grows at its end: the list a turn stores has the list the turn before
\* stored as a prefix (compared by role and content).
C11_StoredListAppendOnly ==
    [][\A id \in ChatIds :
          (StoredList(id) # NullLeaf /\ StoredList(id)' # NullLeaf)
              => IsPrefix(RoleAndContent(StoredList(id).messages),
                          RoleAndContent(StoredList(id).messages'))]_vars

\* C12: a turn of the page that succeeds stores the history the chat had
\* before the turn, then the user's message once, then the composed reply,
\* and nothing else.
C12_OneTurnPairStored ==
    (/\ client.waiting
     /\ call.op = "POST"
     /\ call.status = 200
     /\ call.saved = "ok")
        => StoredList(call.chatId) =
              [messages |-> client.prior
                            \o <<Message("user", client.sent),
                                 Message("assistant", call.finalResponse)>>]

----------------------------------------------------------------------------
\* Properties of the classifiers

CallState == IF call.op = "getUserState" THEN call.state ELSE call.context.state

LastFewOf(messages) == Join(LastN(LowerContents(messages), 3), W(" "))

AllOf(messages) == Join(LowerContents(messages), W(" "))

\* The turns before the last three.
EarlierOf(messages) ==
    SubSeq(messages, 1, Len(messages) - Min(3, Len(messages)))

\* The phrases of the restart rule of getUserState.
RestartPhrases ==
    {<<"start", " ", "over">>, <<"try", " ", "different", " ", "email">>,
     <<"wrong", " ", "email">>, <<"different", " ", "email">>,
     <<"not", " ", "working">>, <<"still", " ", "not", " ", "getting">>,
     <<"not", " ", "receiving">>, <<"nothing", " ", "in", " ", "spam">>}

\* The phrases of the restart scenarios of analyzeUserState.
AnalyzeRestartPhrases ==
    {<<"start", " ", "over">>, <<"try", " ", "different", " ", "email">>,
     <<"wrong", " ", "email">>, <<"contact", " ", "form">>}

\* "successfully" with a phrase of completion
CompletionIn(text) ==
    /\ Has(text, <<"successfully">>)
    /\ \/ Has(text, <<"logged", " ", "in">>)
       \/ Has(text, <<"reset", " ", "password">>)
       \/ Has(text, <<"i'm", " ", "in">>)
       \/ Has(text, <<"it", " ", "worked">>)

RecentRestart(messages, phrases) ==
    \E phrase \in phrases : Has(LastFewOf(messages), phrase)

ConversationStates ==
    {"initial", "has_login_error", "checking_email_validation",
     "email_validated_ready_for_username", "username_email_sent",
     "ready_for_password_reset", "password_reset_in_progress",
     "process_complete", "restart_needed"}

\* The states of the rules of getUserState, in the order of the rules.
RuleStates ==
    <<"restart_needed", "process_complete", "password_reset_in_progress",
      "ready_for_password_reset", "username_email_sent",
      "email_validated_ready_for_username", "checking_email_validation",
      "has_login_error">>

\* The predicate of rule i on the joined contents and on the last three.
RuleHolds(i, allMessages, lastFewMessages) ==
    CASE i = 1 -> \E phrase \in RestartPhrases : Has(lastFewMessages, phrase)
      [] i = 2 -> CompletionIn(allMessages)
      [] i = 3 -> /\ Has(allMessages, <<"password", " ", "reset">>)
                  /\ \E phrase \in {<<"email">>, <<"link">>,
                                    <<"got", " ", "the", " ", "reset">>} :
                        Has(allMessages, phrase)
      [] i = 4 -> \E phrase \in {<<"got", " ", "my", " ", "username">>,
                                 <<"have", " ", "username">>,
                                 <<"received", " ", "username">>,
                                 <<"found", " ", "my", " ", "username">>,
                                 <<"username", " ", "from", " ", "email">>,
                                 <<"found", " ", "it", "!">>} :
                      Has(allMessages, phrase)
      [] i = 5 -> /\ Has(allMessages, <<"username">>)
                  /\ \E phrase \in {<<"sent">>,
                                    <<"check", " ", "your", " ", "email">>,
                                    <<"email", " ", "sent">>} :
                        Has(allMessages, phrase)
      [] i = 6 -> \/ \E phrase \in {<<"existing", " ", "student", " ", "record">>,
                                    <<"validation", " ", "error">>,
                                    <<"email", " ", "exists">>,
                                    <<"email", " ", "is", " ", "in", " ", "the",
                                      " ", "system">>} :
                        Has(allMessages, phrase)
                  \/ Has(allMessages, <<"error">>) /\ Has(allMessages, <<"good">>)
      [] i = 7 -> \E phrase \in {<<"new", " ", "user">>, <<"right", " ", "side">>,
                                 <<"checking", " ", "email">>} :
                      Has(lastFewMessages, phrase)
      [] i = 8 -> \E phrase \in {<<"invalid", " ", "email">>,
                                 <<"invalid", " ", "password">>,
                                 <<"login", " ", "error">>,
                                 <<"can't", " ", "log", " ", "in">>,
                                 <<"won't", " ", "let", " ", "me">>,
                                 <<"locked", " ", "out">>} :
                      Has(allMessages, phrase)

MatchingRules(messages) ==
    {i \in 1..Len(RuleStates) :
        RuleHolds(i, AllOf(messages), LastFewOf(messages))}

\* The state of the first rule of the list that holds, or "initial".
FirstMatch(messages) ==
    LET matching == MatchingRules(messages)
    IN  IF matching = {} THEN "initial"
        ELSE RuleStates[CHOOSE i \in matching : \A j \in matching : i <= j]

\* C14: getUserState returns, for every history, the state of the first of
\* its eight rules (in their fixed order) that holds and "initial" when none
\* holds; the result is one of the nine states, and it is "initial" for the
\* empty history and for a history whose messages have no content.
C14_FirstMatchingRuleWins ==
    call.op = "getUserState"
        => /\ call.state = FirstMatch(call.messages)
           /\ call.state \in ConversationStates
           /\ (\A i \in 1..Len(call.messages) : call.messages[i].content.t # "str")
                 => call.state = "initial"

\* A history on which two rules that are not the first hold has been
\* classified by the earlier of them.
C14_Witness ==
    /\ call.op = "getUserState"
    /\ Cardinality(MatchingRules(call.messages)) >= 2
    /\ 1 \notin MatchingRules(call.messages)
    /\ 2 \notin MatchingRules(call.messages)
    /\ call.state = FirstMatch(call.messages)
    /\ call.state = "checking_email_validation"

----------------------------------------------------------------------------
\* Properties of a chat turn

FetchFailed ==
    /\ call.op = "POST"
    /\ call.scraped
    /\ call.pageData.error = StrLeaf(W("Failed to scrape URL"))

FirstTurnLoginError ==
    /\ call.op = "POST"
    /\ client.waiting
    /\ client.turns = 1
    /\ client.prior = << >>
    /\ urlMatch(client.sent) = NullLeaf
    /\ \/ Has(toLowerCase(client.sent), <<"can't", " ", "log", " ", "in">>)
       \/ Has(toLowerCase(client.sent), <<"invalid", " ", "email">>)

----------------------------------------------------------------------------
\* Properties of the suggested options

\* The options completion was asked for and failed: it threw, gave no text,
\* gave text that holds no JSON object, or gave options without a text.
OptionsCompletionFailed ==
    /\ call.op = "generateAIExpectedOutcomes"
    /\ call.asked
    /\ \/ call.outcomeResponse.kind \in {"throws", "null", "text", "scalar"}
       \/ /\ call.outcomeResponse.kind = "json"
          /\ call.outcomeResponse.doc.options.t = "array"
          /\ \E i \in 1..Len(call.outcomeResponse.doc.options.v) :
                call.outcomeResponse.doc.options.v[i].text.t # "str"

FallbackOf ==
    IF call.variant = 1
    THEN getIntelligentFallbackOptions(call.currentContext.state, call.aiResponse)
    ELSE getIntelligentFallbackOptions2(call.currentContext, call.aiResponse)

\* C18: when the options completion fails, generateAIExpectedOutcomes returns
\* the rule-based fallback, which is a list of options or {showInput: true},
\* and the response carries the reply as its message.
C18_OptionsFailureFallsBack ==
    OptionsCompletionFailed
        => /\ call.ret = FallbackOf
           /\ \/ call.ret = ShowInput(TRUE)
              \/ ~IsScalar(call.ret) /\ call.ret.options.t = "array"
           /\ call.body.message = StrLeaf(call.aiResponse)

OptionsOf(ret) ==
    IF ~IsScalar(ret) /\ ret.options.t = "array" THEN ret.options.v ELSE << >>

\* C19: the options of a response are at most 4, and at most 3 in the first
\* variant of the route.
C19_OptionsBounded ==
    call.op = "generateAIExpectedOutcomes"
        => Len(OptionsOf(call.ret)) <= (IF call.variant = 1 THEN 3 ELSE 4)

----------------------------------------------------------------------------
\* Properties of the analytics route

BothSessionStarts ==
    /\ pending.kind = "analytics"
    /\ \A i \in RequestIds :
          /\ Request(i).pc = "done"
          /\ Request(i).event.eventType = "session_start"
    /\ Request(1).t \div 24 = Request(2).t \div 24

\* C20: when two session_start events posted on one UTC day have both been
\* handled, one summary row holds them both: both requests used the same row,
\* whose totalSessions and uniqueSessions are 2, and there is no other row.
C20_TwoSessionStartsOneRow ==
    BothSessionStarts
        => /\ Request(1).today = Request(2).today
           /\ DOMAIN db.analyticsSummary = {Request(1).today}
           /\ db.analyticsSummary[Request(1).today].totalSessions = 2
           /\ db.analyticsSummary[Request(1).today].uniqueSessions = 2

\* The number of the two requests whose event is of one of the types.
Handled(types) ==
    Cardinality({i \in RequestIds : Request(i).event.eventType \in types})

\* Both requests came in for one day that had no row, at least one of them
\* while the other was being handled, and the store failed neither.
RacedToCreate ==
    /\ pending.kind = "analytics"
    /\ \A i \in RequestIds :
          /\ Request(i).pc = "done"
          /\ Request(i).before = NoRow
          /\ Request(i).error # "down"
    /\ Request(1).today = Request(2).today
    /\ \E i \in RequestIds : ~Request(i).alone

\* C21: two requests that race to create the row of a day end with the row
\* there, both answered 201, and the counters of the row holding the
\* increments of both events.
C21_RacingCreatesIdempotent ==
    RacedToCreate
        => LET row == findUnique(db.analyticsSummary, Request(1).today)
           IN  /\ row # NoRow
               /\ \A i \in RequestIds : Request(i).status = 201
               /\ row.totalSessions = Handled({"session_start"})
               /\ row.uniqueSessions = Handled({"session_start"})
               /\ row.totalMessages = Handled({"message_sent", "message_received"})
               /\ row.completedSessions = Handled({"session_completed"})

\* No request is being handled, and those handled were handled one at a time
\* and answered 201.
HandledOneAtATime ==
    /\ pending.kind = "analytics"
    /\ \A i \in RequestIds :
          /\ ~InFlight(Request(i))
          /\ Request(i).pc = "done" => Request(i).alone /\ Request(i).status = 201

\* avgMessagesPerSession, a fraction <<numerator, denominator>>, is
\* totalMessages / totalSessions.
AverageIsQuotient(row) ==
    row.avgMessagesPerSession[1] * row.totalSessions
        = row.totalMessages * row.avgMessagesPerSession[2]

\* C22: with requests handled one at a time, after an event that changes
\* totalSessions or totalMessages the stored avgMessagesPerSession of the day
\* is totalMessages / totalSessions of the row, when totalSessions > 0.
C22_AverageFollowsCounters ==
    HandledOneAtATime
        => \A i \in RequestIds :
              /\ Request(i).pc = "done"
              /\ Request(i).event.eventType
                    \in {"session_start", "message_sent", "message_received"}
              => LET row == db.analyticsSummary[Request(i).today]
                 IN  row.totalSessions > 0 => AverageIsQuotient(row)

\* The events recorded for a day, of some types (and, for clicks, of one quick
\* action).
Recorded(today, types) ==
    Cardinality({n \in 1..Len(db.analytics) :
                    /\ db.analytics[n].today = today
                    /\ db.analytics[n].eventType \in types})

RecordedClicks(today, k) ==
    Cardinality({n \in 1..Len(db.analytics) :
                    /\ db.analytics[n].today = today
                    /\ db.analytics[n].eventType = "quick_action_clicked"
                    /\ db.analytics[n].quickActionType = k})

ClicksOf(row, k) ==
    IF k \in DOMAIN row.quickActionClicks THEN row.quickActionClicks[k] ELSE 0

\* Every request has been answered 201.
AllProcessed ==
    /\ pending.kind = "analytics"
    /\ \A i \in RequestIds : Request(i).pc = "done" /\ Request(i).status = 201

\* C23: when the requests, however interleaved, have all been processed, every
\* field of the row of a day is the number of the events of its kind handled
\* for that day, and so is every key of quickActionClicks.
C23_NoLostUpdate ==
    AllProcessed
        => \A today \in DOMAIN db.analyticsSummary :
              LET row == db.analyticsSummary[today]
              IN  /\ row.totalSessions = Recorded(today, {"session_start"})
                  /\ row.uniqueSessions = Recorded(today, {"session_start"})
                  /\ row.totalMessages
                        = Recorded(today, {"message_sent", "message_received"})
                  /\ row.completedSessions = Recorded(today, {"session_completed"})
                  /\ \A k \in QuickActionTypes :
                        ClicksOf(row, k) = RecordedClicks(today, k)

\* The row a request found, or the row it created.
RowBefore(r) == IF r.before = NoRow THEN NewSummary ELSE r.before

\* Request i, handled alone, has just been answered 201 for a click.
ClickHandled(i) ==
    /\ pending.kind = "analytics"
    /\ call.op = "analytics"
    /\ call.id = i
    /\ Request(i).pc = "done"
    /\ Request(i).status = 201
    /\ Request(i).alone
    /\ Request(i).event.eventType = "quick_action_clicked"

\* C24: a click with quick action k adds 1 to quickActionClicks[k] of the row
\* of the day and changes no other key and no other field; a click without a
\* quick action changes no field.
C24_ClickChangesOneKey ==
    \A i \in RequestIds :
        ClickHandled(i)
            => LET r == Request(i)
                   k == r.event.quickActionType
                   old == RowBefore(r)
                   row == db.analyticsSummary[r.today]
               IN  IF k = ""
                   THEN row = old
                   ELSE /\ ClicksOf(row, k) = ClicksOf(old, k) + 1
                        /\ DOMAIN row.quickActionClicks
                              = DOMAIN old.quickActionClicks \cup {k}
                        /\ \A a \in DOMAIN old.quickActionClicks \ {k} :
                              row.quickActionClicks[a] = old.quickActionClicks[a]
                        /\ [row EXCEPT !.quickActionClicks = << >>]
                              = [old EXCEPT !.quickActionClicks = << >>]

\* A click on one quick action has been handled for a row that held a click
\* on the other.
C24_Witness ==
    \E i \in RequestIds :
        /\ ClickHandled(i)
        /\ Request(i).event.quickActionType = "I forgot my username"
        /\ ClicksOf(RowBefore(Request(i)), "I forgot my password") = 1
        /\ ClicksOf(db.analyticsSummary[Request(i).today], "I forgot my username") = 1

\* C29: when no request is being handled, whatever failed on the way, the
\* events recorded for a day and the row of the day agree: as many
\* session_start events as totalSessions, as many message_sent and
\* message_received events as totalMessages.
C29_LogMatchesSummary ==
    (pending.kind = "analytics" /\ \A i \in RequestIds : ~InFlight(Request(i)))
        => \A today \in DOMAIN db.analyticsSummary :
              LET row == db.analyticsSummary[today]
              IN  /\ Recorded(today, {"session_start"}) = row.totalSessions
                  /\ Recorded(today, {"message_sent", "message_received"})
                        = row.totalMessages

----------------------------------------------------------------------------
\* Properties of the middleware

\* The requests per window the limiter of a path allows.
TokensOf(pathname) ==
    IF isApiRoute(pathname) THEN apiRateLimit.tokens ELSE rateLimit.tokens

\* A request that is not for a skip path has gone through the middleware
\* with the store in reach.
Limited ==
    /\ call.op = "middleware"
    /\ ~shouldSkip(call.pathname)
    /\ call.up

\* What the middleware does with a request the limiter rejects and with one
\* it accepts; the request is counted under its client only.
GateHolds(rejected) ==
    /\ call.limited
    /\ call.counted \subseteq {<<call.ip, call.t \div 60>>}
    /\ IF rejected
       THEN /\ ~call.forwarded
            /\ call.status = 429
            /\ call.body.error = "Rate limit exceeded"
            /\ call.body.retryAfter \in 1..60
            /\ call.headers.retryAfter = Header(call.body.retryAfter)
            /\ call.counted = {}
       ELSE /\ call.forwarded
            /\ call.status # 429
            /\ call.counted = {<<call.ip, call.t \div 60>>}

C30_FailsOpen ==
    call.op = "middleware"
        => /\ (~call.up /\ ~shouldSkip(call.pathname))
                => /\ call.threw
                   /\ call.forwarded
                   /\ call.status # 429
           /\ shouldSkip(call.pathname)
                => /\ ~call.limited
                   /\ call.forwarded
                   /\ call.status # 429
                   /\ call.counted = {}

\* The limiter threw for a client that had used its tokens, and the request
\* was forwarded.
C30_Witness ==
    /\ call.op = "middleware"
    /\ ~call.up
    /\ ~shouldSkip(call.pathname)
    /\ call.used >= 30
    /\ call.forwarded

----------------------------------------------------------------------------
\* Properties of the cache key

\* C26: the record scrapeUrl returns is of the URL asked for: its url field is
\* the URL of the call, also on a hit and also for a URL longer than 200
\* characters, so that the page cached for one URL is never returned for
\* another.
C26_HitIsOfRequestedUrl ==
    call.op = "scrapeUrl" => call.ret.url = StrLeaf(call.url)

----------------------------------------------------------------------------
\* Properties of the expiry of conversations

\* C27: a conversation in the store always has an expiry: in every state
\* that saveConversation leads through, the key of a conversation is either
\* absent or set to expire.
C27_ConversationAlwaysExpires ==
    \A id \in ChatIds :
        redis[conversationKey(id)] # NoEntry
            => redis[conversationKey(id)].exp # NoTTL

----------------------------------------------------------------------------
\* Properties of the restart override along a session

\* The message the user sent at turn j (the page keeps two messages a turn).
UserMessageOf(j) == client.messages[2 * j - 1].content.v

HasRestartPhrase(text) ==
    \E phrase \in RestartPhrases : Has(toLowerCase(text), phrase)

\* Turn k was classified restart_needed and the user has since sent at least
\* two messages, none with a restart phrase: the message of turn k has left
\* the window of three.
RestartThenQuiet(k) ==
    /\ pending.states[k] = "restart_needed"
    /\ k + 2 <= client.turns
    /\ \A j \in (k + 1)..client.turns : ~HasRestartPhrase(UserMessageOf(j))

\* C28: the restart override is transient: in a session that has come to its
\* last turn, a turn classified restart_needed after which the user sent no
\* restart phrase is followed by a turn that is classified otherwise, also
\* when the replies in between are the canned message of restart_needed.
C28_RestartIsTransient ==
    (pending.kind = "session" /\ client.turns = MaxRestartTurns)
        => \A k \in 1..client.turns :
              RestartThenQuiet(k)
                  => \E j \in (k + 1)..client.turns :
                        pending.states[j] # "restart_needed"

\* Why it is not: a history whose last reply is the canned message of
\* restart_needed is classified restart_needed whatever the user says next.
CannedRestartReplyKeepsRestart ==
    (call.op = "turn" /\ client.turns >= 2
        /\ client.messages[2 * client.turns - 2].content
              = StrLeaf(getResponseForState("restart_needed")))
        => call.currentState = "restart_needed"

====
